---- MODULE Spec2Model ----
(***************************************************************************)
(* A model of the world-streaming and entity-storage core of rogue-js:     *)
(* the EntityManager (src/game/entity-manager.js), the ChunkManager        *)
(* (src/game/chunk-manager.js) and the World template they read            *)
(* (src/unnamed/part_008).                                                 *)
(*                                                                         *)
(* JavaScript values are modelled as follows.  Numbers are integers; the   *)
(* bit operators work on 32-bit two's complement values, kept signed as    *)
(* JavaScript keeps them.  Arrays are sequences (index i of the array is   *)
(* element i+1 of the sequence).  Strings are sequences of one-character   *)
(* strings, so that formatting and parsing are computed, not assumed.      *)
(* Objects are entries of a heap addressed by a reference (a positive      *)
(* integer); null and undefined are the references Null and Undefined.     *)
(***************************************************************************)
EXTENDS Integers, Sequences, FiniteSets, TLC

\* ------------------------------------------------------------------ bounds

\* Entities inserted in one run of the EntityManager specification.
MaxEntities == 3
\* Slot indices 0..MaxLowIdx and 2^24-1-MaxLowIdx..2^24-1 are drawn for the
\* pure ID functions, together with every power of two below 2^24.
MaxLowIdx == 2

\* ChunkManager calls made in one run of the ChunkManager specification.
MaxSteps == 4

\* ------------------------------------------------------------------ values

\* A function that is applied many times, with every value computed once: the
\* comparison tabulates it.
Table(f) == IF f = f THEN f ELSE f

\* ------------------------------------------------- 32-bit integer arithmetic

\* A 32-bit two's complement value a is kept signed.  Its sign bit and its
\* low 31 bits, and the value of a sign bit and 31 low bits:
Sign32(a) == IF a < 0 THEN 1 ELSE 0

Low31(a) == IF a < 0 THEN (a + 1073741824) + 1073741824 ELSE a

Join32(s, lo) == IF s = 1 THEN (lo - 1073741824) - 1073741824 ELSE lo

\* The bitwise and, and the bitwise or, of two naturals below 2^n.
RECURSIVE AndBits(_, _, _)
AndBits(a, b, n) ==
  IF n = 0 \/ a = 0 \/ b = 0 THEN 0
  ELSE (a % 2) * (b % 2) + 2 * AndBits(a \div 2, b \div 2, n - 1)

RECURSIVE OrBits(_, _, _)
OrBits(a, b, n) ==
  IF n = 0 THEN 0
  ELSE IF a = 0 THEN b
  ELSE IF b = 0 THEN a
  ELSE (IF a % 2 = 1 \/ b % 2 = 1 THEN 1 ELSE 0) + 2 * OrBits(a \div 2, b \div 2, n - 1)

\* a & b
And32(a, b) ==
  Join32(Sign32(a) * Sign32(b), AndBits(Low31(a), Low31(b), 31))

\* a | b
Or32(a, b) ==
  Join32(IF Sign32(a) = 1 \/ Sign32(b) = 1 THEN 1 ELSE 0,
         OrBits(Low31(a), Low31(b), 31))

\* ~a
Not32(a) == (0 - a) - 1

\* a << n, for 1 <= n <= 31: the low 32-n bits of a move up, the top one of
\* them becoming the sign.
Shl32(a, n) ==
  LET u == a % (2^(32 - n))
  IN IF u >= 2^(31 - n) THEN (u - 2^(32 - n)) * (2^n) ELSE u * (2^n)

\* a >>> n, for 1 <= n <= 31
UShr32(a, n) ==
  IF a < 0 THEN (Low31(a) \div (2^n)) + 2^(31 - n) ELSE a \div (2^n)

\* -------------------------------------------------------------- EntityID

\* EntityType of src/game/types.js: Door 1 .. Treasure 8.
EntityTypes == 1..8

\* The mutants of createID: the tag stored as it is, and the tag shifted by 16.
CreateIDPlainTag(type, idx) == Or32(Shl32(type, 24), idx)

CreateIDShift16(type, idx) == Or32(Shl32(255 - type, 16), idx)

\* static createID(type, idx)
CreateID(type, idx) == Or32(Shl32(255 - type, 24), idx)

\* static getIDType(id)
GetIDType(id) == 255 - UShr32(And32(id, Shl32(255, 24)), 24)

\* static getIDIndex(id)
GetIDIndex(id) == And32(id, Not32(Shl32(255, 24)))

\* The id an archetype's constructor gives a new object: (0xFF - type) << 24.
ProvisionalID(type) == Shl32(255 - type, 24)

\* ---------------------------------------------------------- EntityManager

\* null, undefined, and the outcome of an operation that threw a TypeError.
Null == 0

Undefined == -1

TypeErr == -2

\* The error a read of an undeclared name throws.
ReferenceErr == -3

\* No slot: the value of a ghost that names no slot index.
NoSlot == Undefined

VARIABLES
  emData,     \* EntityManager.data: archetype -> array of references or null
  emBin,      \* EntityManager.bin: archetype -> array of freed slot indices
  heap,       \* the entity objects: reference -> [id, archetype]
  emLast,     \* ghost: the last EntityManager call and what it returned
  stale,      \* ghost: the handles freed by delete and remove
  lastFreed   \* ghost: per archetype, the slot freed last with no insert since

emVars == <<emData, emBin, heap, emLast, stale, lastFreed>>

VARIABLES
  cmPlayerPosition,  \* this.playerPosition (UV)
  cmPosition,        \* this.position (UV)
  cmWidth,           \* this.width (UV)
  cmHeight,          \* this.height (UV)
  cmDistance,        \* this.distance
  cmMaxChunks,       \* this.maxChunks
  chunkMap,          \* this.chunkMap: position key -> buffer index
  chunkBuffer,       \* this.chunkBuffer: the pool of chunks
  cmBin,             \* this.bin: the free buffer indices
  chunkDiffCache,    \* this.chunkDiffCache: chunk key -> chunk diff
  entityDiffCache,   \* this.entityDiffCache: chunk key -> entity diff
  localStorage,      \* window.localStorage: chunk key -> chunk diff
  worldTiles,        \* world.tiles: coordinate key -> tile
  snap,              \* ghost: chunk key -> cells off the baseline at its last unload
  idSnap,            \* ghost: chunk key -> the ID grid at its last unload
  cmLast,            \* ghost: the last ChunkManager call
  cmSteps            \* ghost: the number of ChunkManager calls made

cmVars ==
  <<cmPlayerPosition, cmPosition, cmWidth, cmHeight, cmDistance, cmMaxChunks,
    chunkMap, chunkBuffer, cmBin, chunkDiffCache, entityDiffCache, localStorage,
    worldTiles, snap, idSnap, cmLast, cmSteps>>

VARIABLES
  idType,   \* the archetype tag given to createID
  idIdx,    \* the slot index given to createID
  idOut,    \* the id createID returned
  idDone    \* whether createID has been called

idVars == <<idType, idIdx, idOut, idDone>>

VARIABLES
  ring,     \* a RingBuffer: data, capacity, length, front, back, lastPop
  rbModel,  \* ghost: the double-ended queue the calls describe, front first
  rbLast    \* ghost: the last RingBuffer call, what it returned and what
            \* the queue returns for it

rbVars == <<ring, rbModel, rbLast>>

VARIABLES
  door,     \* a Door: the fields open and close read and write, and its make
  doorLast  \* ghost: the last Door call and the door it was given

doorVars == <<door, doorLast>>

VARIABLES
  nine,     \* the nine-slot ChunkManager: cache, root, N, NE, E, SE, S, SW, W, NW
  nineLast  \* ghost: the last reroot, the one before it, the chunks it was
            \* given, the slots it met, and the calls and chunks made so far

nineVars == <<nine, nineLast>>

VARIABLES
  game,     \* the Game of runGame: state, menu, selection, events, the player,
            \* and where the loop stands (pc)
  gameLast  \* ghost: the events pushed and the player's moves since the queue
            \* was last drained, and what the last drain met and did

gameVars == <<game, gameLast>>

\* The variables the two managers' calls leave alone.
otherVars == <<idVars, rbVars, doorVars, nineVars, gameVars>>

vars == <<emVars, cmVars, otherVars>>

\* The archetypes the runs insert (EntityType.Door and EntityType.Monster of
\* src/game/types.js), and the ids they look up, delete and remove:
\* every slot of those archetypes up to one past the end, id 0 and an id of
\* the unregistered tag 0.
InsertTypes == {1, 2}

ProbeIDs ==
  {CreateID(t, i) : t \in InsertTypes, i \in 0..MaxEntities} \cup {0, CreateID(0, 0)}

\* The archetype the Door class carries (src/game/archetype/archetype.js), and
\* the ids the chunk loader can give the doors it generates.
DoorType == 4

KnownIDs ==
  ProbeIDs \cup {ProvisionalID(t) : t \in InsertTypes \cup {DoorType}}
           \cup {CreateID(DoorType, i) : i \in 0..MaxEntities}

\* getIDType and getIDIndex, computed once for the ids the runs use.
IDTypeTable == Table([id \in KnownIDs |-> GetIDType(id)])

IDIndexTable == Table([id \in KnownIDs |-> GetIDIndex(id)])

TypeOf(id) == IF id \in KnownIDs THEN IDTypeTable[id] ELSE GetIDType(id)

IndexOf(id) == IF id \in KnownIDs THEN IDIndexTable[id] ELSE GetIDIndex(id)

\* The free list's first index instead of its last: a FIFO free list.
BinShift(b) == [idx |-> b[1], rest |-> SubSeq(b, 2, Len(b))]

\* this.bin[type].pop()
BinPop(b) == [idx |-> b[Len(b)], rest |-> SubSeq(b, 1, Len(b) - 1)]

\* constructor(): data and bin hold an empty array for each value of EntityType.
EMDataInit == [t \in EntityTypes |-> <<>>]

\* binEmpty(type)
BinEmpty(bin, type) == Len(bin[type]) = 0

\* this.data[type][idx]: reading an index of undefined throws, an index past
\* the end of the array reads undefined.
SlotAt(data, type, idx) ==
  IF type \notin DOMAIN data THEN TypeErr
  ELSE IF idx >= Len(data[type]) THEN Undefined
  ELSE data[type][idx + 1]

\* lookup(id)
Lookup(data, id) == SlotAt(data, TypeOf(id), IndexOf(id))

\* An else branch that makes the id from the length of the array instead of
\* the popped index.
InsertPoppedIDOfLength(data, bin, ref, type, p) ==
  [data |-> [data EXCEPT ![type][p.idx + 1] = ref],
   bin  |-> [bin EXCEPT ![type] = p.rest],
   type |-> type,
   idx  |-> p.idx,
   id   |-> CreateID(type, Len(data[type]))]

\* The else branch of insert: idx = this.bin[type].pop(); data[type][idx] = entity.
InsertPopped(data, bin, ref, type, p) ==
  [data |-> [data EXCEPT ![type][p.idx + 1] = ref],
   bin  |-> [bin EXCEPT ![type] = p.rest],
   type |-> type,
   idx  |-> p.idx,
   id   |-> CreateID(type, p.idx)]

\* The then branch of insert: idx = data[type].length; data[type].push(entity).
InsertPushed(data, bin, ref, type, idx) ==
  [data |-> [data EXCEPT ![type] = Append(@, ref)],
   bin  |-> bin,
   type |-> type,
   idx  |-> idx,
   id   |-> CreateID(type, idx)]

\* An insert that ignores the free list and always appends.
InsertOfTypeAppend(data, bin, ref, type) ==
  InsertPushed(data, bin, ref, type, Len(data[type]))

\* insert(entity) once the type is decoded from the entity's id.
InsertOfType(data, bin, ref, type) ==
  IF BinEmpty(bin, type) THEN InsertPushed(data, bin, ref, type, Len(data[type]))
  ELSE InsertPopped(data, bin, ref, type, BinPop(bin[type]))

\* insert(entity), for the entity at reference ref whose id is entId.
InsertEntity(data, bin, ref, entId) == InsertOfType(data, bin, ref, TypeOf(entId))

\* A body that frees a slot which holds null as well.
FreeFoundNullToo(data, bin, type, idx, entity) ==
  IF entity \in {Undefined, TypeErr}
  THEN [data |-> data, bin |-> bin, ref |-> entity, freed |-> FALSE]
  ELSE [data  |-> [data EXCEPT ![type][idx + 1] = Null],
        bin   |-> [bin EXCEPT ![type] = Append(@, idx)],
        ref   |-> entity,
        freed |-> TRUE]

\* The body delete(id) and remove(id) share, given the slot's content: the
\* slot is freed when it holds an entity; ref is what the slot held.
FreeFound(data, bin, type, idx, entity) ==
  IF entity \in {Null, Undefined, TypeErr}
  THEN [data |-> data, bin |-> bin, ref |-> entity, freed |-> FALSE]
  ELSE [data  |-> [data EXCEPT ![type][idx + 1] = Null],
        bin   |-> [bin EXCEPT ![type] = Append(@, idx)],
        ref   |-> entity,
        freed |-> TRUE]

FreeAt(data, bin, type, idx) == FreeFound(data, bin, type, idx, SlotAt(data, type, idx))

FreeSlot(data, bin, id) == FreeAt(data, bin, TypeOf(id), IndexOf(id))

\* Whether id names a live entity: a registered tag, an index inside the
\* archetype's array, and an entity in the slot.
Live(data, id) == Lookup(data, id) \notin {Null, Undefined, TypeErr}

EMLastNone ==
  [op |-> "none", type |-> 0, id |-> 0, idx |-> NoSlot, ref |-> Null,
   ret |-> Undefined, binBefore |-> <<>>, nullBefore |-> {}, lenBefore |-> 0,
   freedBefore |-> NoSlot, liveBefore |-> FALSE]

EMInit ==
  /\ emData = EMDataInit
  /\ emBin = [t \in EntityTypes |-> <<>>]
  /\ heap = <<>>
  /\ emLast = EMLastNone
  /\ stale = {}
  /\ lastFreed = [t \in EntityTypes |-> NoSlot]

\* The slots of an archetype that hold null.
NullSlots(data, type) == {i \in 0..(Len(data[type]) - 1) : data[type][i + 1] = Null}

\* The manager with its ghosts as one value, for the callers that insert.
EMState ==
  [data |-> emData, bin |-> emBin, heap |-> heap, last |-> emLast,
   stale |-> stale, lastFreed |-> lastFreed]

\* The manager and its ghosts after insert(entity) ended as r for the new
\* entity at reference ref of archetype t.
EMInserted(em, t, ref, r) ==
  [data |-> r.data,
   bin |-> r.bin,
   heap |-> Append(em.heap, [id |-> r.id, archetype |-> t]),
   last |-> [EMLastNone EXCEPT
               !.op = "insert", !.type = r.type, !.id = r.id,
               !.idx = r.idx, !.ref = ref, !.ret = r.id,
               !.binBefore = em.bin[r.type],
               !.nullBefore = NullSlots(em.data, r.type),
               !.lenBefore = Len(em.data[r.type]),
               !.freedBefore = em.lastFreed[r.type]],
   stale |-> {[h EXCEPT !.reused = h.reused \/ TypeOf(h.id) = r.type] : h \in em.stale},
   lastFreed |-> [em.lastFreed EXCEPT ![r.type] = NoSlot]]

\* em.insert(new Archetype()) for an archetype t, on the manager value em.
EMInsertOp(em, t) ==
  EMInserted(em, t, Len(em.heap) + 1,
             InsertEntity(em.data, em.bin, Len(em.heap) + 1, ProvisionalID(t)))

\* The manager's variables take the value em.
EMAssign(em) ==
  /\ emData' = em.data
  /\ emBin' = em.bin
  /\ heap' = em.heap
  /\ emLast' = em.last
  /\ stale' = em.stale
  /\ lastFreed' = em.lastFreed

EMInsert(t) ==
  /\ Len(heap) < MaxEntities
  /\ \E em \in {EMInsertOp(EMState, t)} : EMAssign(em)
  /\ UNCHANGED <<cmVars, otherVars>>

\* The ghosts after a delete or remove of id that ended as r.
FreeGhosts(id, r) ==
  /\ stale' = IF r.freed THEN stale \cup {[id |-> id, ref |-> r.ref, reused |-> FALSE]}
              ELSE stale
  /\ lastFreed' = IF r.freed THEN [lastFreed EXCEPT ![TypeOf(id)] = IndexOf(id)]
                  ELSE lastFreed

\* em.delete(id): returns the id, or undefined when the slot holds no entity.
EMDelete(id) ==
  \E r \in {FreeSlot(emData, emBin, id)} :
     /\ emData' = r.data
     /\ emBin' = r.bin
     /\ heap' = heap
     /\ emLast' = [EMLastNone EXCEPT
                     !.op = "delete", !.id = id, !.ref = r.ref,
                     !.ret = IF r.freed THEN id ELSE IF r.ref = TypeErr THEN TypeErr ELSE Undefined,
                     !.liveBefore = r.freed]
     /\ FreeGhosts(id, r)
     /\ UNCHANGED <<cmVars, otherVars>>

\* em.remove(id): returns the entity, or undefined when the slot holds none.
EMRemove(id) ==
  \E r \in {FreeSlot(emData, emBin, id)} :
     /\ emData' = r.data
     /\ emBin' = r.bin
     /\ heap' = heap
     /\ emLast' = [EMLastNone EXCEPT
                     !.op = "remove", !.id = id, !.ref = r.ref,
                     !.ret = IF r.freed THEN r.ref ELSE IF r.ref = TypeErr THEN TypeErr ELSE Undefined,
                     !.liveBefore = r.freed]
     /\ FreeGhosts(id, r)
     /\ UNCHANGED <<cmVars, otherVars>>

\* em.lookup(id)
EMLookup(id) ==
  /\ \E found \in {Lookup(emData, id)} :
        emLast' = [EMLastNone EXCEPT
                     !.op = "lookup", !.id = id, !.ref = found, !.ret = found,
                     !.liveBefore = found \notin {Null, Undefined, TypeErr}]
  /\ UNCHANGED <<emData, emBin, heap, stale, lastFreed, cmVars, otherVars>>

EMNext ==
  \/ \E t \in InsertTypes : EMInsert(t)
  \/ \E id \in ProbeIDs : EMDelete(id)
  \/ \E id \in ProbeIDs : EMRemove(id)
  \/ \E id \in ProbeIDs : EMLookup(id)

\* ------------------------------------------------------------------ strings

\* Not a number: what parseInt returns when no digit is read.
NaN == -2147483647

HexDigits == <<"0", "1", "2", "3", "4", "5", "6", "7", "8", "9",
               "a", "b", "c", "d", "e", "f">>

DecDigits == SubSeq(HexDigits, 1, 10)

\* The value of a digit character in the radix, -1 when it is none.
DigitVal(ch, radix) ==
  LET low == {i \in 1..radix : HexDigits[i] = ch}
      up  == {i \in 11..radix : <<"A", "B", "C", "D", "E", "F">>[i - 10] = ch}
  IN IF low # {} THEN (CHOOSE i \in low : TRUE) - 1
     ELSE IF up # {} THEN (CHOOSE i \in up : TRUE) - 1
     ELSE -1

\* Number.prototype.toString(radix) of an integer n.
RECURSIVE NumToStr(_, _)
NumToStr(n, radix) ==
  IF n < 0 THEN <<"-">> \o NumToStr(0 - n, radix)
  ELSE IF n < radix THEN <<HexDigits[n + 1]>>
  ELSE NumToStr(n \div radix, radix) \o <<HexDigits[(n % radix) + 1]>>

\* The digits read from position i of s, given the value acc read so far.
RECURSIVE ReadDigits(_, _, _, _)
ReadDigits(s, i, radix, acc) ==
  IF i > Len(s) \/ DigitVal(s[i], radix) < 0 THEN acc
  ELSE ReadDigits(s, i + 1, radix, acc * radix + DigitVal(s[i], radix))

\* parseInt(s, radix): an optional sign, then the longest run of digits; NaN
\* when there is no digit (and for undefined, given as the string "undefined").
ParseInt(s, radix) ==
  LET neg   == Len(s) > 0 /\ s[1] = "-"
      start == IF Len(s) > 0 /\ s[1] \in {"-", "+"} THEN 2 ELSE 1
  IN IF start > Len(s) \/ DigitVal(s[start], radix) < 0 THEN NaN
     ELSE IF neg THEN 0 - ReadDigits(s, start, radix, 0)
     ELSE ReadDigits(s, start, radix, 0)

\* String.prototype.indexOf(ch): the 0-based index of the first ch, or -1.
StrIndexOf(s, ch) ==
  LET hits == {i \in 1..Len(s) : s[i] = ch}
  IN IF hits = {} THEN -1 ELSE (CHOOSE i \in hits : \A j \in hits : i <= j) - 1

\* Array.prototype.indexOf(x) of an array of strings.
ArrIndexOf(arr, x) ==
  LET hits == {i \in 1..Len(arr) : arr[i] = x}
  IN IF hits = {} THEN -1 ELSE (CHOOSE i \in hits : \A j \in hits : i <= j) - 1

\* String.prototype.slice(from), for from >= 0.
StrSliceFrom(s, from) == SubSeq(s, from + 1, Len(s))

\* String.prototype.split(sep) for a one-character separator, given the
\* index k of the first separator.
RECURSIVE StrSplitAt(_, _, _)
StrSplitAt(s, sep, k) ==
  IF k < 0 THEN <<s>>
  ELSE <<SubSeq(s, 1, k)>>
         \o StrSplitAt(StrSliceFrom(s, k + 1), sep,
                       StrIndexOf(StrSliceFrom(s, k + 1), sep))

StrSplit(s, sep) == StrSplitAt(s, sep, StrIndexOf(s, sep))

\* The records joined by ";", as unloadChunk appends them.
RECURSIVE JoinRecords(_)
JoinRecords(recs) ==
  IF Len(recs) = 0 THEN <<>>
  ELSE IF Len(recs) = 1 THEN recs[1]
  ELSE recs[1] \o <<";">> \o JoinRecords(Tail(recs))

\* String.prototype.slice(from, to), for 0 <= from and 0 <= to.
StrSlice(s, from, to) ==
  SubSeq(s, from + 1, IF to < Len(s) THEN to ELSE Len(s))

\* stringifyPosition(pos), the position key of chunkMap and of the ID grids.
PosToStr(pos) == NumToStr(pos.x, 16) \o <<",">> \o NumToStr(pos.y, 16)

\* parsePosition(posStr): x is read in base 16 up to the comma; y is read
\* from the slice after the comma cut at index 16, with no radix given.
StrToPos(posStr) ==
  [x |-> ParseInt(posStr, 16),
   y |-> ParseInt(StrSlice(posStr, StrIndexOf(posStr, ",") + 1, 16), 10)]

\* EntityManager.IDToStr(id) and EntityManager.StrToID(str): the id as a
\* string, and back.
IDToStr(id) == NumToStr(id, 10)

StrToID(str) == ParseInt(str, 10)

\* -------------------------------------------------------------------- tiles

TileBedrock == 2

TileFloor == 3

TileWall == 4

TileClosedDoor == 6

TileAlchemist == 17

\* tileCollision(tile)
TileCollision(tile) == tile \in {TileWall, TileBedrock}

\* tileEntity(tile)
TileEntity(tile) == tile > 4

\* What a Uint8Array keeps of a value stored in it: NaN becomes 0, any other
\* number is taken modulo 256.
ToUint8(v) == IF v = NaN THEN 0 ELSE v % 256

\* -------------------------------------------------------------------- gamma

\* GAMMA2.clamp(x, a, b)
Clamp(x, a, b) ==
  LET m == IF x > a THEN x ELSE a
  IN IF m < b THEN m ELSE b

Abs(n) == IF n < 0 THEN 0 - n ELSE n

\* GAMMA2.LInfNorm(x1, x2): Math.max of the two differences, NaN when a
\* coordinate is NaN.
LInfNorm(x1, x2) ==
  IF NaN \in {x1.x, x1.y, x2.x, x2.y} THEN NaN
  ELSE LET dx == Abs(x2.x - x1.x)
           dy == Abs(x2.y - x1.y)
       IN IF dx > dy THEN dx ELSE dy

\* -------------------------------------------------------------------- chunk

\* Chunk.size
ChunkSize == 16

\* Chunk.worldToUV(position)
WorldToUV(position) ==
  [x |-> position.x \div ChunkSize, y |-> position.y \div ChunkSize]

\* Chunk.UVToWorld(position)
UVToWorld(position) ==
  [x |-> position.x * ChunkSize, y |-> position.y * ChunkSize]

\* Chunk.toChunkString(depth, position)
ToChunkString(depth, position) ==
  NumToStr(depth, 16) \o <<"_">> \o NumToStr(position.x, 16)
                      \o <<"_">> \o NumToStr(position.y, 16)

\* Chunk.toChunkDiff(position, tile)
ToChunkDiff(position, tile) ==
  NumToStr(position.x, 16) \o <<",">> \o NumToStr(position.y, 16)
                           \o <<":">> \o NumToStr(tile, 16)

\* The cells of a chunk in the order the y-outer, x-inner loops visit them;
\* cell i is local position (i % 16, i \div 16), the index of a TileGrid.
Cells == 0..(ChunkSize * ChunkSize - 1)

CellSeq == [i \in 1..(ChunkSize * ChunkSize) |-> i - 1]

CellPos(i) == [x |-> i % ChunkSize, y |-> i \div ChunkSize]

\* TileGrid index of a local position: position.y * width + position.x.
CellIndex(position) == position.y * ChunkSize + position.x

\* The position key of every cell, computed once.
CellKey == Table([i \in Cells |-> PosToStr(CellPos(i))])

\* TileGrid.setTile(position, tile): a typed array ignores a store outside
\* its length or at an index that is not a number.
GridSetTile(grid, position, tile) ==
  IF position.x = NaN \/ position.y = NaN THEN grid
  ELSE IF CellIndex(position) \in Cells
       THEN [grid EXCEPT ![CellIndex(position)] = ToUint8(tile)]
       ELSE grid

\* new Chunk(): zeroed tile, visibility and collision grids, an empty ID grid.
\* A BitGrid is kept as the set of cells whose bit is set, an IDGrid as the
\* map from position key to the stack of ids.
NewChunk ==
  [tileGrid |-> [i \in Cells |-> 0], visGrid |-> {}, colGrid |-> {},
   idGrid |-> <<>>]

\* IDGrid.getID(position): the top of the stack, or undefined.
GridGetID(idGrid, key) ==
  IF key \notin DOMAIN idGrid THEN Undefined
  ELSE IF Len(idGrid[key]) = 0 THEN Undefined
  ELSE idGrid[key][Len(idGrid[key])]

\* A setID that puts the id at the bottom of the stack.
GridSetIDBottom(idGrid, key, id) ==
  [k \in DOMAIN idGrid \cup {key} |->
     IF k = key
     THEN (IF key \in DOMAIN idGrid THEN <<id>> \o idGrid[key] ELSE <<id>>)
     ELSE idGrid[k]]

\* IDGrid.setID(position, id): push onto the stack, made when missing.
GridSetID(idGrid, key, id) ==
  [k \in DOMAIN idGrid \cup {key} |->
     IF k = key
     THEN (IF key \in DOMAIN idGrid THEN Append(idGrid[key], id) ELSE <<id>>)
     ELSE idGrid[k]]

\* IDGrid.popID(position): nothing for a missing stack, else Array.pop.
GridPopID(idGrid, key) ==
  IF key \notin DOMAIN idGrid THEN idGrid
  ELSE [idGrid EXCEPT ![key] = IF Len(@) = 0 THEN @ ELSE SubSeq(@, 1, Len(@) - 1)]

\* IDGrid.replaceID(position, id): the stack is made when missing; pop, then
\* push(id).
GridReplaceID(idGrid, key, id) ==
  GridSetID(GridPopID(idGrid, key), key, id)

\* IDGrid.setUnderID(position, id): the stack is made when missing; top =
\* pop, push(id), and push(top) when top is not undefined.
GridSetUnderID(idGrid, key, id) ==
  IF GridGetID(idGrid, key) = Undefined
  THEN GridSetID(idGrid, key, id)
  ELSE GridSetID(GridSetID(GridPopID(idGrid, key), key, id), key, GridGetID(idGrid, key))

\* -------------------------------------------------------------------- world

\* World.coordToString(x, y)
CoordToString(x, y) == NumToStr(x, 16) \o <<",">> \o NumToStr(y, 16)

\* World.insert(tile, x, y) on the tiles object.
WorldInsert(tiles, tile, x, y) ==
  [k \in DOMAIN tiles \cup {CoordToString(x, y)} |->
     IF k = CoordToString(x, y) THEN tile ELSE tiles[k]]

\* World.delete(x, y): the override of the coordinate is removed.
WorldDelete(tiles, x, y) ==
  [k \in DOMAIN tiles \ {CoordToString(x, y)} |-> tiles[k]]

\* World.defaultTile, set by the constructor and by generateTown.
DefaultTile == TileFloor

\* World.lookup(x_w, y_w)
WorldLookup(tiles, x, y) ==
  IF CoordToString(x, y) \in DOMAIN tiles THEN tiles[CoordToString(x, y)]
  ELSE DefaultTile

\* World.drawRectangle(tile, pos, width, height) without fill.
DrawRectangle(tiles, tile, pos, w, h) ==
  LET edge == {<<i, pos.y>> : i \in pos.x..(pos.x + w - 1)}
              \cup {<<i, pos.y + h - 1>> : i \in pos.x..(pos.x + w - 1)}
              \cup {<<pos.x, j>> : j \in (pos.y + 1)..(pos.y + h - 2)}
              \cup {<<pos.x + w - 1, j>> : j \in (pos.y + 1)..(pos.y + h - 2)}
      keys == {CoordToString(c[1], c[2]) : c \in edge}
  IN [k \in DOMAIN tiles \cup keys |-> IF k \in keys THEN tile ELSE tiles[k]]

\* generateTown(): the world is 3 by 2 chunks and the spawn is its centre.
WorldWidth == 3 * ChunkSize

WorldHeight == 2 * ChunkSize

Spawn == [x |-> WorldWidth \div 2, y |-> WorldHeight \div 2]

\* world.depth of the surface world.
WorldDepth == 0

\* The template the runs start from: the wall around the town, one shop of
\* two by two cells whose first cell is the shop tile, and two closed doors
\* as generateTestMap draws them.
TownTemplate ==
  LET walls == DrawRectangle(<<>>, TileWall, [x |-> 0, y |-> 0], WorldWidth, WorldHeight)
      s1 == WorldInsert(walls, TileAlchemist, 10, 9)
      s2 == WorldInsert(s1, TileWall, 11, 9)
      s3 == WorldInsert(s2, TileWall, 10, 10)
      s4 == WorldInsert(s3, TileWall, 11, 10)
      d1 == WorldInsert(s4, TileClosedDoor, 4, 4)
  IN WorldInsert(d1, TileClosedDoor, 40, 8)

\* The key of every coordinate of the world, computed once.
CoordKeyTable ==
  Table([x \in 0..(WorldWidth - 1) |->
           Table([y \in 0..(WorldHeight - 1) |-> CoordToString(x, y)])])

CoordKey(x, y) ==
  IF x \in 0..(WorldWidth - 1) /\ y \in 0..(WorldHeight - 1) THEN CoordKeyTable[x][y]
  ELSE CoordToString(x, y)

\* world.lookup at every cell of the chunk whose origin is worldPos.
TemplateOf(tiles, worldPos) ==
  LET keys == DOMAIN tiles
  IN Table([i \in Cells |->
        LET k == CoordKey(worldPos.x + (i % ChunkSize), worldPos.y + (i \div ChunkSize))
        IN IF k \in keys THEN tiles[k] ELSE DefaultTile])

\* ------------------------------------------------------------- ChunkManager

\* An object used as a map, as a sequence of [key, val] in insertion order
\* (the order of Object.keys).
MapHas(m, key) == \E k \in 1..Len(m) : m[k].key = key

MapGet(m, key) ==
  IF MapHas(m, key) THEN m[CHOOSE k \in 1..Len(m) : m[k].key = key].val
  ELSE Undefined

MapSet(m, key, val) ==
  IF MapHas(m, key)
  THEN [k \in 1..Len(m) |-> IF m[k].key = key THEN [key |-> key, val |-> val] ELSE m[k]]
  ELSE Append(m, [key |-> key, val |-> val])

MapDelete(m, key) == SelectSeq(m, LAMBDA e : e.key # key)

MapKeys(m) == [k \in 1..Len(m) |-> m[k].key]

\* A string-keyed object or store whose key order is never read.
DictSet(d, key, val) == [k \in DOMAIN d \cup {key} |-> IF k = key THEN val ELSE d[k]]

DictDelete(d, key) == [k \in DOMAIN d \ {key} |-> d[k]]

\* maxChunks = 1 + 4 * (distance * (distance + 1)), of the constructor's argument.
MaxChunksOf(distanceArg) == 1 + 4 * (distanceArg * (distanceArg + 1))

\* The loop that fills the bin: maxChunks - 1 - i is pushed for i = 0, 1, ...
InitialBin(maxChunks) == [i \in 1..maxChunks |-> maxChunks - i]

\* constructor(position, width, height, distance), with the world, the browser
\* store and the entity manager the calls are given. Two ghosts ride along:
\* snap, per chunk key the cells that differed from the baseline at the chunk's
\* last unload, and log, the loadChunk and unloadChunk calls made since the
\* log was emptied, each with how it ended.
NewManager(pos, w, h, distanceArg, tiles, store, em) ==
  [playerPosition |-> WorldToUV(pos),
   position |-> WorldToUV(pos),
   width |-> w \div ChunkSize,
   height |-> h \div ChunkSize,
   distance |-> Clamp(distanceArg, 1, 8),
   maxChunks |-> MaxChunksOf(distanceArg),
   chunkMap |-> <<>>,
   chunkBuffer |-> [i \in 1..MaxChunksOf(distanceArg) |-> NewChunk],
   bin |-> InitialBin(MaxChunksOf(distanceArg)),
   chunkDiffCache |-> <<>>,
   entityDiffCache |-> <<>>,
   store |-> store,
   tiles |-> tiles,
   em |-> em,
   snap |-> <<>>,
   idSnap |-> <<>>,
   log |-> <<>>]

\* loaded(position)
Loaded(m, uv) == MapGet(m.chunkMap, PosToStr(uv)) # Undefined

\* chunksAvailable()
ChunksAvailable(m) == Len(m.bin) > 0

\* The bound of inBounds taken inclusive: x <= width and y <= height.
InBoundsInclusive(m, uv) ==
  0 <= uv.x /\ 0 <= uv.y /\ uv.x <= m.width /\ uv.y <= m.height

\* inBounds(position)
InBounds(m, uv) ==
  0 <= uv.x /\ 0 <= uv.y /\ uv.x < m.width /\ uv.y < m.height

\* withinDistance(position): a comparison with NaN is false.
WithinDistance(m, uv) ==
  /\ LInfNorm(m.playerPosition, uv) # NaN
  /\ LInfNorm(m.playerPosition, uv) <= m.distance

\* A release that drops the index instead of pushing it.
ReleaseSlotLost(bin, idx) == bin

\* this.bin.push(idx)
ReleaseSlot(bin, idx) == Append(bin, idx)

\* this.bin.pop()
TakeSlot(bin) == [idx |-> bin[Len(bin)], rest |-> SubSeq(bin, 1, Len(bin) - 1)]

\* The ghost log takes one more call.
Logged(m, op, uv) == [m EXCEPT !.log = Append(@, [op |-> op, uv |-> uv])]

\* How a loadChunk that returns at its guard is logged: the UV is resident,
\* or outside the world, or in the world and not resident with no slot free.
LoadRefusal(m, uv) ==
  IF Loaded(m, uv) THEN "resident"
  ELSE IF ~InBounds(m, uv) THEN "outside"
  ELSE "full"

\* chunk.idGrid.setID(position, em.insert(door)), em2 the manager after the insert.
DoorPlaced(em2, idGrid, i) ==
  [em |-> em2, idGrid |-> GridSetID(idGrid, CellKey[i], em2.last.ret)]

\* GAMMA2.pairHash(position)
PairHash(p) == IF p.x >= p.y THEN p.x * p.x + p.x + p.y ELSE p.x + p.y * p.y

\* a ^ b on 32-bit values.
Xor32(a, b) == Or32(a, b) - And32(a, b)

\* Chunk.hashSeed(seed, depth, position)
HashSeed(seed, depth, position) == Xor32((depth + 1) * seed, PairHash(position))

\* world.seed
WorldSeed == 1337

\* A generator seeded by the slot index last pushed on the bin.
ChunkRngOfSlot(m, uv) ==
  [seed |-> WorldSeed + (IF Len(m.bin) = 0 THEN 0 ELSE m.bin[Len(m.bin)]), n |-> 0]

\* One generator for the whole world, which every load draws on.
ChunkRngShared(m, uv) == [seed |-> WorldSeed, n |-> Len(m.em.heap)]

\* mulberry32(Chunk.hashSeed(world.seed, world.depth, position)): a generator
\* is its seed and how many doors have drawn on it. What it returns on a draw
\* is a function of the two.
ChunkRng(m, uv) == [seed |-> HashSeed(WorldSeed, WorldDepth, uv), n |-> 0]

\* Door.randomize(rng, door, depth) on the door inserted last: the fields it
\* draws are kept as the state of the generator they were drawn from, beside
\* a ghost, the world cell the door was generated for.
DoorRandomized(rng, em2, where) ==
  [em2 EXCEPT !.heap[Len(em2.heap)] =
     [id |-> @.id, archetype |-> @.archetype, gen |-> rng, at |-> where]]

DoorMade(rng, g, where) ==
  [em |-> DoorRandomized(rng, g.em, where), idGrid |-> g.idGrid,
   rng |-> [rng EXCEPT !.n = @ + 1]]

\* generateEntity(rng, tile, position, depth, chunk, em): a closed door makes
\* a Door, inserts it, pushes its id on the cell and randomizes it; no other
\* tile makes an entity or draws on the generator.
GenerateEntity(rng, em, idGrid, tile, i, where) ==
  IF tile = TileClosedDoor
  THEN DoorMade(rng, DoorPlaced(EMInsertOp(em, DoorType), idGrid, i), where)
  ELSE [em |-> em, idGrid |-> idGrid, rng |-> rng]

\* The entity branch of the template loop of loadChunk over the cells that
\* hold an entity tile: generateEntity, then world.delete. g is what the
\* generateEntity of the first of the cells returned. The world and the heap
\* a step leaves are evaluated before the next step begins.
RECURSIVE GenerateEntities(_, _, _, _, _, _, _)
GeneratedOne(g, tiles, cells, template, worldPos) ==
  GenerateEntities(g.rng, g.em, g.idGrid,
                   WorldDelete(tiles, worldPos.x + (Head(cells) % ChunkSize),
                                      worldPos.y + (Head(cells) \div ChunkSize)),
                   Tail(cells), template, worldPos)

GenerateEntities(rng, em, idGrid, tiles, cells, template, worldPos) ==
  IF Len(cells) = 0 \/ tiles # tiles \/ em.heap # em.heap
  THEN [em |-> em, idGrid |-> idGrid, tiles |-> tiles]
  ELSE GeneratedOne(GenerateEntity(rng, em, idGrid, template[Head(cells)], Head(cells),
                                   CoordKey(worldPos.x + (Head(cells) % ChunkSize),
                                            worldPos.y + (Head(cells) \div ChunkSize))),
                    tiles, cells, template, worldPos)

\* The template loop storing the template's tile in every cell, entity or not.
LoadedTileRaw(tile, old, hasEntityDiff) == ToUint8(tile)

\* What the template loop of loadChunk leaves in a cell of the tile grid: the
\* template's tile; for an entity tile the default tile, or what the slot held
\* when the chunk has an entity diff.
LoadedTile(tile, old, hasEntityDiff) ==
  IF TileEntity(tile)
  THEN (IF hasEntityDiff THEN old ELSE ToUint8(DefaultTile))
  ELSE ToUint8(tile)

\* The y of a chunk diff record:
\* parseInt(keyVal[0].slice(keyVal.indexOf(',') + 1), 16), where indexOf
\* searches the array keyVal for an element equal to ",".
ChunkDiffY(keyVal) ==
  ParseInt(StrSliceFrom(keyVal[1], ArrIndexOf(keyVal, <<",">>) + 1), 16)

\* One record of a chunk diff, split at ":", applied to the tile grid.
ChunkDiffRecord(grid, keyVal) ==
  GridSetTile(grid,
              [x |-> ParseInt(keyVal[1], 16), y |-> ChunkDiffY(keyVal)],
              IF Len(keyVal) >= 2 THEN ParseInt(keyVal[2], 16) ELSE NaN)

\* The "Run diffs" loop of loadChunk over the records of a chunk diff.
RECURSIVE ApplyChunkDiff(_, _)
ApplyChunkDiff(grid, recs) ==
  IF Len(recs) = 0 THEN grid
  ELSE ApplyChunkDiff(ChunkDiffRecord(grid, StrSplit(Head(recs), ":")), Tail(recs))

\* One record of an entity diff, split at ":", applied to the ID grid.
EntityDiffRecord(idGrid, keyVal) ==
  GridSetID(idGrid,
            PosToStr([x |-> ParseInt(keyVal[1], 16),
                      y |-> ParseInt(StrSliceFrom(keyVal[1], StrIndexOf(keyVal[1], ",") + 1), 16)]),
            IF Len(keyVal) >= 2 THEN StrToID(keyVal[2]) ELSE NaN)

\* The loop of loadChunk over the records of an entity diff.
RECURSIVE ApplyEntityDiff(_, _)
ApplyEntityDiff(idGrid, recs) ==
  IF Len(recs) = 0 THEN idGrid
  ELSE ApplyEntityDiff(EntityDiffRecord(idGrid, StrSplit(Head(recs), ":")), Tail(recs))

\* The generated baseline of a chunk: the template's tile, and the default
\* tile where the template holds an entity tile.
BaselineTile(tile) == IF TileEntity(tile) THEN DefaultTile ELSE tile

BaselineFrom(template) == Table([i \in Cells |-> BaselineTile(template[i])])

BaselineOf(tiles, worldPos) == BaselineFrom(TemplateOf(tiles, worldPos))

\* The tile grid after the template loop of loadChunk, over what the slot held.
TemplateGrid(template, old, hasEntityDiff) ==
  Table([i \in Cells |-> LoadedTile(template[i], old[i], hasEntityDiff)])

\* The chunk diff loadChunk runs: the cached one, else the stored one, else none.
HasChunkDiff(m, chunkStr) ==
  chunkStr \in DOMAIN m.chunkDiffCache \/ chunkStr \in DOMAIN m.store

ChunkDiffOf(m, chunkStr) ==
  IF chunkStr \in DOMAIN m.chunkDiffCache THEN m.chunkDiffCache[chunkStr]
  ELSE m.store[chunkStr]

\* The tile grid after the "Run diffs" step.
DiffedGrid(m, chunkStr, grid) ==
  IF HasChunkDiff(m, chunkStr)
  THEN ApplyChunkDiff(grid, StrSplit(ChunkDiffOf(m, chunkStr), ";"))
  ELSE grid

\* The entity manager, the ID grid and the world after the template loop.
Generated(m, template, worldPos, hasEntityDiff) ==
  IF hasEntityDiff THEN [em |-> m.em, idGrid |-> <<>>, tiles |-> m.tiles]
  ELSE GenerateEntities(ChunkRng(m, WorldToUV(worldPos)), m.em, <<>>, m.tiles,
                        SelectSeq(CellSeq, LAMBDA i : TileEntity(template[i])),
                        template, worldPos)

\* The stacks of the ID grid new pushed on those of the ID grid old.
StackedOver(old, new) ==
  [k \in DOMAIN old \cup DOMAIN new |->
     (IF k \in DOMAIN old THEN old[k] ELSE <<>>)
       \o (IF k \in DOMAIN new THEN new[k] ELSE <<>>)]

\* The ID grid after the entity diff step when the slot's ID grid was not
\* reset: what the slot held lies under what the load pushed.
DiffedIDGridKept(m, chunkStr, idGrid, hasEntityDiff) ==
  StackedOver(m.chunkBuffer[TakeSlot(m.bin).idx + 1].idGrid,
              IF hasEntityDiff
              THEN ApplyEntityDiff(idGrid, StrSplit(m.entityDiffCache[chunkStr], ";"))
              ELSE idGrid)

\* The ID grid after the entity diff step.
DiffedIDGrid(m, chunkStr, idGrid, hasEntityDiff) ==
  IF hasEntityDiff
  THEN ApplyEntityDiff(idGrid, StrSplit(m.entityDiffCache[chunkStr], ";"))
  ELSE idGrid

\* loadChunk that leaves the entity diff it applied in the cache.
LoadIntoDiffKept(m, uv, chunkStr, slot, template, gen, hasEntityDiff) ==
  [m EXCEPT
     !.bin = slot.rest,
     !.chunkMap = MapSet(m.chunkMap, PosToStr(uv), slot.idx),
     !.chunkBuffer[slot.idx + 1] =
         [tileGrid |-> DiffedGrid(m, chunkStr,
                         TemplateGrid(template, m.chunkBuffer[slot.idx + 1].tileGrid,
                                      hasEntityDiff)),
          visGrid |-> {},
          colGrid |-> {i \in Cells : TileCollision(template[i])},
          idGrid |-> DiffedIDGrid(m, chunkStr, gen.idGrid, hasEntityDiff)],
     !.chunkDiffCache = IF HasChunkDiff(m, chunkStr) THEN DictDelete(@, chunkStr) ELSE @,
     !.tiles = gen.tiles,
     !.em = gen.em,
     !.snap = DictDelete(@, chunkStr),
     !.idSnap = DictDelete(@, chunkStr)]

\* loadChunk past its guard: the chunk at buffer index slot.idx is filled
\* from the template, what was generated (gen) and the diffs.
LoadInto(m, uv, chunkStr, slot, template, gen, hasEntityDiff) ==
  [m EXCEPT
     !.bin = slot.rest,
     !.chunkMap = MapSet(m.chunkMap, PosToStr(uv), slot.idx),
     !.chunkBuffer[slot.idx + 1] =
         [tileGrid |-> DiffedGrid(m, chunkStr,
                         TemplateGrid(template, m.chunkBuffer[slot.idx + 1].tileGrid,
                                      hasEntityDiff)),
          visGrid |-> {},
          colGrid |-> {i \in Cells : TileCollision(template[i])},
          idGrid |-> DiffedIDGrid(m, chunkStr, gen.idGrid, hasEntityDiff)],
     !.chunkDiffCache = IF HasChunkDiff(m, chunkStr) THEN DictDelete(@, chunkStr) ELSE @,
     !.entityDiffCache = IF hasEntityDiff THEN DictDelete(@, chunkStr) ELSE @,
     !.tiles = gen.tiles,
     !.em = gen.em,
     !.snap = DictDelete(@, chunkStr),
     !.idSnap = DictDelete(@, chunkStr)]

LoadFrom(m, uv, chunkStr, slot, template, hasEntityDiff) ==
  LoadInto(m, uv, chunkStr, slot, template,
           Generated(m, template, UVToWorld(uv), hasEntityDiff), hasEntityDiff)

\* loadChunk whose guard does not ask whether the UV is loaded.
LoadChunkUnasked(m, uv) ==
  IF ~ChunksAvailable(m) \/ ~InBounds(m, uv)
  THEN Logged(m, LoadRefusal(m, uv), uv)
  ELSE LoadFrom(Logged(m, "load", uv), uv, ToChunkString(WorldDepth, uv), TakeSlot(m.bin),
                TemplateOf(m.tiles, UVToWorld(uv)),
                ToChunkString(WorldDepth, uv) \in DOMAIN m.entityDiffCache)

\* loadChunk(position, world, em)
LoadChunk(m, uv) ==
  IF ~ChunksAvailable(m) \/ Loaded(m, uv) \/ ~InBounds(m, uv)
  THEN Logged(m, LoadRefusal(m, uv), uv)
  ELSE LoadFrom(Logged(m, "load", uv), uv, ToChunkString(WorldDepth, uv), TakeSlot(m.bin),
                TemplateOf(m.tiles, UVToWorld(uv)),
                ToChunkString(WorldDepth, uv) \in DOMAIN m.entityDiffCache)

\* loadChunk on a pool whose chunks are all as the constructor made them.
FreshLoaded(m, uv) ==
  LoadChunk([m EXCEPT !.chunkBuffer = [k \in DOMAIN @ |-> NewChunk]], uv)

\* The test of unloadChunk for a cell to enter the chunk diff.
DiffersFromTemplate(worldTile, tile) == ~TileEntity(worldTile) /\ tile # worldTile

\* The chunk diff string of unloadChunk, from the cells that enter it.
ChunkDiffStr(grid, diffCells) ==
  JoinRecords([k \in 1..Len(diffCells) |->
                 ToChunkDiff(CellPos(diffCells[k]), grid[diffCells[k]])])

\* The entity diff string of unloadChunk, from the cells that hold an id.
EntityDiffStr(idGrid, idCells) ==
  JoinRecords([k \in 1..Len(idCells) |->
                 CellKey[idCells[k]] \o <<":">>
                   \o IDToStr(GridGetID(idGrid, CellKey[idCells[k]]))])

\* unloadChunk that deletes the doors when the chunk it unloads holds ids:
\* their slots are nulled and pushed on the free list.
UnloadWithDoorsFreed(m, uv, chunkStr, idx, chunkDiffStr, entityDiffStr, offBaseline) ==
  [m EXCEPT
     !.chunkDiffCache = IF chunkDiffStr # <<>> THEN DictSet(@, chunkStr, chunkDiffStr) ELSE @,
     !.store = IF chunkDiffStr # <<>> THEN DictSet(@, chunkStr, chunkDiffStr) ELSE @,
     !.entityDiffCache = IF entityDiffStr # <<>> THEN DictSet(@, chunkStr, entityDiffStr) ELSE @,
     !.bin = ReleaseSlot(@, idx),
     !.chunkMap = MapDelete(@, PosToStr(uv)),
     !.snap = DictSet(@, chunkStr, offBaseline),
     !.idSnap = DictSet(@, chunkStr, m.chunkBuffer[idx + 1].idGrid),
     !.em.data[DoorType] = IF entityDiffStr # <<>> THEN [k \in DOMAIN @ |-> Null] ELSE @,
     !.em.bin[DoorType] = IF entityDiffStr # <<>>
                          THEN @ \o [k \in 1..Len(m.em.data[DoorType]) |-> k - 1]
                          ELSE @]

\* unloadChunk that writes the entity diff string to the store as well.
UnloadWithEntitiesStored(m, uv, chunkStr, idx, chunkDiffStr, entityDiffStr, offBaseline) ==
  [m EXCEPT
     !.chunkDiffCache = IF chunkDiffStr # <<>> THEN DictSet(@, chunkStr, chunkDiffStr) ELSE @,
     !.store = IF entityDiffStr # <<>> THEN DictSet(@, chunkStr, entityDiffStr)
               ELSE IF chunkDiffStr # <<>> THEN DictSet(@, chunkStr, chunkDiffStr)
               ELSE @,
     !.entityDiffCache = IF entityDiffStr # <<>> THEN DictSet(@, chunkStr, entityDiffStr) ELSE @,
     !.bin = ReleaseSlot(@, idx),
     !.chunkMap = MapDelete(@, PosToStr(uv)),
     !.snap = DictSet(@, chunkStr, offBaseline),
     !.idSnap = DictSet(@, chunkStr, m.chunkBuffer[idx + 1].idGrid)]

\* unloadChunk past its guard, with the two diff strings it built.
UnloadWith(m, uv, chunkStr, idx, chunkDiffStr, entityDiffStr, offBaseline) ==
  [m EXCEPT
     !.chunkDiffCache = IF chunkDiffStr # <<>> THEN DictSet(@, chunkStr, chunkDiffStr) ELSE @,
     !.store = IF chunkDiffStr # <<>> THEN DictSet(@, chunkStr, chunkDiffStr) ELSE @,
     !.entityDiffCache = IF entityDiffStr # <<>> THEN DictSet(@, chunkStr, entityDiffStr) ELSE @,
     !.bin = ReleaseSlot(@, idx),
     !.chunkMap = MapDelete(@, PosToStr(uv)),
     !.snap = DictSet(@, chunkStr, offBaseline),
     !.idSnap = DictSet(@, chunkStr, m.chunkBuffer[idx + 1].idGrid)]

UnloadFrom(m, uv, idx, chunk, template) ==
  UnloadWith(m, uv, ToChunkString(WorldDepth, uv), idx,
    ChunkDiffStr(chunk.tileGrid,
      SelectSeq(CellSeq, LAMBDA i : DiffersFromTemplate(template[i], chunk.tileGrid[i]))),
    EntityDiffStr(chunk.idGrid,
      SelectSeq(CellSeq, LAMBDA i : GridGetID(chunk.idGrid, CellKey[i]) # Undefined)),
    {<<j, chunk.tileGrid[j]>> :
       j \in {i \in Cells : chunk.tileGrid[i] # BaselineTile(template[i])}})

UnloadAt(m, uv, idx) ==
  UnloadFrom(m, uv, idx, m.chunkBuffer[idx + 1], TemplateOf(m.tiles, UVToWorld(uv)))

\* unloadChunk(position, world)
UnloadChunk(m, uv) ==
  IF ~Loaded(m, uv) THEN Logged(m, "absent", uv)
  ELSE UnloadAt(Logged(m, "unload", uv), uv, MapGet(m.chunkMap, PosToStr(uv)))

\* One turn of the unload loop of update: the chunk of the key is unloaded
\* when the position read from the key is not within the distance.
UnloadIfFar(m, key) ==
  IF ~WithinDistance(m, StrToPos(key)) THEN UnloadChunk(m, StrToPos(key)) ELSE m

\* The unload loop of update over the keys chunkMap had when the loop began.
\* The manager r a turn leaves is evaluated before the next turn begins.
RECURSIVE UnloadFar(_, _)
UnloadRest(r, keys) == IF r.maxChunks = r.maxChunks THEN UnloadFar(r, keys) ELSE r

UnloadFar(m, keys) ==
  IF Len(keys) = 0 THEN m
  ELSE UnloadRest(UnloadIfFar(m, Head(keys)), Tail(keys))

\* The UVs the load loop of update visits, v in the outer loop and u inside.
UpdateWindow(pp, d) ==
  [k \in 1..((2 * d + 1) * (2 * d + 1)) |->
     [x |-> pp.x - d + ((k - 1) % (2 * d + 1)),
      y |-> pp.y - d + ((k - 1) \div (2 * d + 1))]]

\* The load loop of update. The manager r a load leaves is evaluated before
\* the next load begins.
RECURSIVE LoadAll(_, _)
LoadRest(r, uvs) == IF r.maxChunks = r.maxChunks THEN LoadAll(r, uvs) ELSE r

LoadAll(m, uvs) ==
  IF Len(uvs) = 0 THEN m
  ELSE LoadRest(LoadChunk(m, Head(uvs)), Tail(uvs))

\* update past its early return: position takes the player's chunk, the far
\* chunks are unloaded, the window is loaded.
UpdateAll(m, pp) ==
  LoadAll(UnloadFar([m EXCEPT !.position = pp], MapKeys(m.chunkMap)),
          UpdateWindow(pp, m.distance))

\* update without its early return.
UpdateToAlways(m, pp, force) == UpdateAll([m EXCEPT !.playerPosition = pp], pp)

UpdateTo(m, pp, force) ==
  IF pp.x = m.position.x /\ pp.y = m.position.y /\ ~force
  THEN [m EXCEPT !.playerPosition = pp]
  ELSE UpdateAll([m EXCEPT !.playerPosition = pp], pp)

\* update(position, world, em, force)
Update(m, pos, force) == UpdateTo(m, WorldToUV(pos), force)

\* getTile that reads the cell of the swapped coordinates.
GetTileSwapped(m, idx, local) ==
  IF idx = Undefined THEN Undefined
  ELSE m.chunkBuffer[idx + 1].tileGrid[CellIndex([x |-> local.y, y |-> local.x])]

\* getTile past its guard, on the chunk at buffer index idx.
GetTileAt(m, idx, local) ==
  IF idx = Undefined THEN Undefined
  ELSE m.chunkBuffer[idx + 1].tileGrid[CellIndex(local)]

\* getTile(position)
GetTile(m, pos) ==
  GetTileAt(m, MapGet(m.chunkMap, PosToStr(WorldToUV(pos))),
            [x |-> pos.x - UVToWorld(WorldToUV(pos)).x,
             y |-> pos.y - UVToWorld(WorldToUV(pos)).y])

\* setTile past its guard, on the chunk at buffer index idx.
SetTileAt(m, idx, local, tile) ==
  IF idx = Undefined THEN m
  ELSE [m EXCEPT !.chunkBuffer[idx + 1].tileGrid = GridSetTile(@, local, tile)]

\* setTile(position, tile)
SetTile(m, pos, tile) ==
  SetTileAt(m, MapGet(m.chunkMap, PosToStr(WorldToUV(pos))),
            [x |-> pos.x - UVToWorld(WorldToUV(pos)).x,
             y |-> pos.y - UVToWorld(WorldToUV(pos)).y],
            tile)

\* setID past its guard, on the chunk at buffer index idx.
SetIDAt(m, idx, local, id) ==
  IF idx = Undefined THEN m
  ELSE [m EXCEPT !.chunkBuffer[idx + 1].idGrid = GridSetID(@, PosToStr(local), id)]

\* setID(position, id)
SetID(m, pos, id) ==
  SetIDAt(m, MapGet(m.chunkMap, PosToStr(WorldToUV(pos))),
          [x |-> pos.x - UVToWorld(WorldToUV(pos)).x,
           y |-> pos.y - UVToWorld(WorldToUV(pos)).y],
          id)

\* getCollision(position): the bit of the cell, or undefined.
GetCollision(m, pos) ==
  LET idx == MapGet(m.chunkMap, PosToStr(WorldToUV(pos)))
      local == [x |-> pos.x - UVToWorld(WorldToUV(pos)).x,
                y |-> pos.y - UVToWorld(WorldToUV(pos)).y]
  IN IF idx = Undefined THEN Undefined
     ELSE IF CellIndex(local) \in m.chunkBuffer[idx + 1].colGrid THEN 1 ELSE 0

\* getVisibility(position)
GetVisibility(m, pos) ==
  LET idx == MapGet(m.chunkMap, PosToStr(WorldToUV(pos)))
      local == [x |-> pos.x - UVToWorld(WorldToUV(pos)).x,
                y |-> pos.y - UVToWorld(WorldToUV(pos)).y]
  IN IF idx = Undefined THEN Undefined
     ELSE IF CellIndex(local) \in m.chunkBuffer[idx + 1].visGrid THEN 1 ELSE 0

\* getID(position): the top of the stack of the cell, or undefined.
GetID(m, pos) ==
  LET idx == MapGet(m.chunkMap, PosToStr(WorldToUV(pos)))
      local == [x |-> pos.x - UVToWorld(WorldToUV(pos)).x,
                y |-> pos.y - UVToWorld(WorldToUV(pos)).y]
  IN IF idx = Undefined THEN Undefined
     ELSE GridGetID(m.chunkBuffer[idx + 1].idGrid, PosToStr(local))

\* setCollision(position, state): the bit of the cell is set or cleared.
SetCollision(m, pos, state) ==
  LET idx == MapGet(m.chunkMap, PosToStr(WorldToUV(pos)))
      local == [x |-> pos.x - UVToWorld(WorldToUV(pos)).x,
                y |-> pos.y - UVToWorld(WorldToUV(pos)).y]
  IN IF idx = Undefined THEN m
     ELSE [m EXCEPT !.chunkBuffer[idx + 1].colGrid =
                      IF state THEN @ \cup {CellIndex(local)}
                      ELSE @ \ {CellIndex(local)}]

\* setVisibility(position): the method has no parameter state, and reads the
\* name state before it writes anything, whether the chunk is resident or
\* not; the read throws and the manager is as it was.
SetVisibility(m, pos) == m

\* replaceID(position, id): the top of the stack of the cell gives way to id.
ReplaceID(m, pos, id) ==
  LET idx == MapGet(m.chunkMap, PosToStr(WorldToUV(pos)))
      key == PosToStr([x |-> pos.x - UVToWorld(WorldToUV(pos)).x,
                       y |-> pos.y - UVToWorld(WorldToUV(pos)).y])
  IN IF idx = Undefined THEN m
     ELSE [m EXCEPT !.chunkBuffer[idx + 1].idGrid =
             [k \in DOMAIN @ \cup {key} |->
                IF k # key THEN @[k]
                ELSE IF key \in DOMAIN @ /\ Len(@[key]) > 0
                     THEN [@[key] EXCEPT ![Len(@[key])] = id]
                     ELSE <<id>>]]

\* popID(position): the top of the stack of the cell is taken off.
PopID(m, pos) ==
  LET idx == MapGet(m.chunkMap, PosToStr(WorldToUV(pos)))
      key == PosToStr([x |-> pos.x - UVToWorld(WorldToUV(pos)).x,
                       y |-> pos.y - UVToWorld(WorldToUV(pos)).y])
  IN IF idx = Undefined THEN m
     ELSE IF key \notin DOMAIN m.chunkBuffer[idx + 1].idGrid THEN m
     ELSE [m EXCEPT !.chunkBuffer[idx + 1].idGrid[key] =
                      IF Len(@) = 0 THEN @ ELSE SubSeq(@, 1, Len(@) - 1)]

\* A query or a mutator called at a world position: the manager it leaves and
\* what it returns. A boolean is returned as 1 or 0. A mutator returns its
\* argument when the chunk is not resident, and undefined (or, for replaceID
\* and popID, what the ID grid returned) when it is.
Call(m, op, pos, arg) ==
  CASE op = "getTile" -> [m |-> m, ret |-> GetTile(m, pos)]
    [] op = "getCollision" -> [m |-> m, ret |-> GetCollision(m, pos)]
    [] op = "getVisibility" -> [m |-> m, ret |-> GetVisibility(m, pos)]
    [] op = "getID" -> [m |-> m, ret |-> GetID(m, pos)]
    [] op = "setTile" ->
         [m |-> SetTile(m, pos, arg),
          ret |-> IF Loaded(m, WorldToUV(pos)) THEN Undefined ELSE arg]
    [] op = "setCollision" ->
         [m |-> SetCollision(m, pos, arg = 1),
          ret |-> IF Loaded(m, WorldToUV(pos)) THEN Undefined ELSE arg]
    [] op = "setVisibility" -> [m |-> SetVisibility(m, pos), ret |-> ReferenceErr]
    [] op = "setID" ->
         [m |-> SetID(m, pos, arg),
          ret |-> IF Loaded(m, WorldToUV(pos)) THEN Undefined ELSE arg]
    [] op = "replaceID" ->
         [m |-> ReplaceID(m, pos, arg),
          ret |-> IF Loaded(m, WorldToUV(pos)) THEN GetID(m, pos) ELSE arg]
    [] op = "popID" -> [m |-> PopID(m, pos), ret |-> GetID(m, pos)]

\* The loop of reset over the keys of chunkMap: each index goes to the bin.
RECURSIVE ReleaseAll(_, _)
ReleaseAll(bin, entries) ==
  IF Len(entries) = 0 THEN bin
  ELSE ReleaseAll(ReleaseSlot(bin, Head(entries).val), Tail(entries))

\* A reset that leaves the tile diffs in their cache.
ResetTileDiffsKept(m, pos, w, h) ==
  [m EXCEPT
     !.position = WorldToUV(pos),
     !.width = w \div ChunkSize,
     !.height = h \div ChunkSize,
     !.entityDiffCache = <<>>,
     !.bin = ReleaseAll(@, m.chunkMap),
     !.chunkMap = <<>>,
     !.snap = <<>>,
     !.idSnap = <<>>]

\* reset(position, width, height)
Reset(m, pos, w, h) ==
  [m EXCEPT
     !.position = WorldToUV(pos),
     !.width = w \div ChunkSize,
     !.height = h \div ChunkSize,
     !.entityDiffCache = <<>>,
     !.chunkDiffCache = <<>>,
     !.bin = ReleaseAll(@, m.chunkMap),
     !.chunkMap = <<>>,
     !.snap = <<>>,
     !.idSnap = <<>>]

\* ------------------------------------------------- the manager as variables

\* The manager, the world, the store and the entity manager as one value.
CMState ==
  [playerPosition |-> cmPlayerPosition, position |-> cmPosition,
   width |-> cmWidth, height |-> cmHeight, distance |-> cmDistance,
   maxChunks |-> cmMaxChunks, chunkMap |-> chunkMap, chunkBuffer |-> chunkBuffer,
   bin |-> cmBin, chunkDiffCache |-> chunkDiffCache,
   entityDiffCache |-> entityDiffCache, store |-> localStorage,
   tiles |-> worldTiles, em |-> EMState, snap |-> snap,
   idSnap |-> idSnap, log |-> <<>>]

\* The variables but the two call ghosts take the value m.
CMAssign(m) ==
  /\ cmPlayerPosition' = m.playerPosition
  /\ cmPosition' = m.position
  /\ cmWidth' = m.width
  /\ cmHeight' = m.height
  /\ cmDistance' = m.distance
  /\ cmMaxChunks' = m.maxChunks
  /\ chunkMap' = m.chunkMap
  /\ chunkBuffer' = m.chunkBuffer
  /\ cmBin' = m.bin
  /\ chunkDiffCache' = m.chunkDiffCache
  /\ entityDiffCache' = m.entityDiffCache
  /\ localStorage' = m.store
  /\ worldTiles' = m.tiles
  /\ snap' = m.snap
  /\ idSnap' = m.idSnap
  /\ EMAssign(m.em)

\* What the last call was and what it met; guard tells whether a condition of
\* the guard of loadChunk held when it was called, back holds the position
\* a call returned, empty when it returned undefined, diff is the chunk
\* diff loadChunk had to run, and cell and arg are the local position and the
\* id given to a method of the ID grid.
CMLastNone ==
  [op |-> "none", uv |-> [x |-> 0, y |-> 0], done |-> FALSE, full |-> FALSE,
   hadDiff |-> FALSE, hadSnap |-> FALSE, snapDiff |-> {}, atBaseline |-> FALSE,
   wrote |-> FALSE, log |-> <<>>, idsBefore |-> <<>>, fresh |-> NewChunk,
   held |-> NewChunk, ret |-> Undefined, same |-> FALSE, back |-> {},
   guard |-> FALSE, diff |-> <<>>, cell |-> [x |-> 0, y |-> 0], arg |-> Undefined]

\* The distances the runs construct the manager with, the positions they move
\* the player to, the UVs they load and unload directly, and the cells and
\* tiles they write.
DistanceArgs == {0, 1}

PlayerPositions == {Spawn, [x |-> 8, y |-> 8], [x |-> 40, y |-> 8]}

DirectUVs == {[x |-> 0, y |-> 0], [x |-> 2, y |-> 1], [x |-> -1, y |-> 0]}

WrittenCells == {[x |-> 3, y |-> 5], [x |-> 3, y |-> 3]}

WrittenTiles == {TileFloor, TileWall}

\* new World(seed); world.generateTown(); new EntityManager();
\* new ChunkManager(spawn, world.width, world.height, d), with an empty store.
CMInitWith(d) ==
  /\ EMInit
  /\ LET m == NewManager(Spawn, WorldWidth, WorldHeight, d, TownTemplate, <<>>, EMState)
     IN /\ cmPlayerPosition = m.playerPosition
        /\ cmPosition = m.position
        /\ cmWidth = m.width
        /\ cmHeight = m.height
        /\ cmDistance = m.distance
        /\ cmMaxChunks = m.maxChunks
        /\ chunkMap = m.chunkMap
        /\ chunkBuffer = m.chunkBuffer
        /\ cmBin = m.bin
        /\ chunkDiffCache = m.chunkDiffCache
        /\ entityDiffCache = m.entityDiffCache
        /\ localStorage = m.store
        /\ worldTiles = m.tiles
        /\ snap = m.snap
        /\ idSnap = m.idSnap
  /\ cmLast = CMLastNone
  /\ cmSteps = 0

\* chunks.update(position, world, em, force)
CMUpdate(pos, force) ==
  /\ cmSteps < MaxSteps
  /\ \E m \in {Update(CMState, pos, force)} :
        /\ CMAssign(m)
        /\ cmLast' = [CMLastNone EXCEPT
                        !.op = "update", !.uv = WorldToUV(pos), !.done = TRUE,
                        !.full = force \/ WorldToUV(pos) # cmPosition,
                        !.log = m.log,
                        !.same = ([m EXCEPT !.log = <<>>,
                                            !.playerPosition = cmPlayerPosition]
                                    = CMState)]
  /\ cmSteps' = cmSteps + 1
  /\ UNCHANGED otherVars

\* chunks.loadChunk(uv, world, em)
CMLoadChunk(uv) ==
  /\ cmSteps < MaxSteps
  /\ \E m \in {LoadChunk(CMState, uv)}, chunkStr \in {ToChunkString(WorldDepth, uv)} :
        /\ CMAssign(m)
        /\ cmLast' = [CMLastNone EXCEPT
                        !.op = "loadChunk", !.uv = uv,
                        !.done = Loaded(m, uv) /\ ~Loaded(CMState, uv),
                        !.hadDiff = chunkStr \in DOMAIN chunkDiffCache
                                    \/ chunkStr \in DOMAIN localStorage,
                        !.hadSnap = chunkStr \in DOMAIN snap,
                        !.snapDiff = IF chunkStr \in DOMAIN snap THEN snap[chunkStr] ELSE {},
                        !.log = m.log,
                        !.idsBefore = IF chunkStr \in DOMAIN idSnap THEN idSnap[chunkStr]
                                      ELSE <<>>,
                        !.fresh = IF Loaded(m, uv) /\ ~Loaded(CMState, uv)
                                  THEN FreshLoaded(CMState, uv).chunkBuffer[
                                         MapGet(m.chunkMap, PosToStr(uv)) + 1]
                                  ELSE NewChunk,
                        !.held = IF Loaded(m, uv) /\ ~Loaded(CMState, uv)
                                 THEN chunkBuffer[MapGet(m.chunkMap, PosToStr(uv)) + 1]
                                 ELSE NewChunk,
                        !.same = ([m EXCEPT !.log = <<>>] = CMState),
                        !.guard = ~ChunksAvailable(CMState) \/ Loaded(CMState, uv)
                                    \/ ~InBounds(CMState, uv),
                        !.back = IF m.log[Len(m.log)].op = "load" THEN {} ELSE {uv},
                        !.diff = IF HasChunkDiff(CMState, chunkStr)
                                 THEN ChunkDiffOf(CMState, chunkStr) ELSE <<>>]
  /\ cmSteps' = cmSteps + 1
  /\ UNCHANGED otherVars

\* chunks.unloadChunk(uv, world)
CMUnloadChunk(uv) ==
  /\ cmSteps < MaxSteps
  /\ \E m \in {UnloadChunk(CMState, uv)}, chunkStr \in {ToChunkString(WorldDepth, uv)} :
        /\ CMAssign(m)
        /\ cmLast' = [CMLastNone EXCEPT
                        !.op = "unloadChunk", !.uv = uv, !.done = Loaded(CMState, uv),
                        !.atBaseline = Loaded(CMState, uv) /\ m.snap[chunkStr] = {},
                        !.wrote = m.store # localStorage
                                  \/ m.chunkDiffCache # chunkDiffCache,
                        !.log = m.log]
  /\ cmSteps' = cmSteps + 1
  /\ UNCHANGED otherVars

\* chunks.setTile(position, tile)
CMSetTile(pos, tile) ==
  /\ cmSteps < MaxSteps
  /\ \E m \in {SetTile(CMState, pos, tile)} : CMAssign(m)
  /\ cmLast' = [CMLastNone EXCEPT
                  !.op = "setTile", !.uv = WorldToUV(pos),
                  !.done = Loaded(CMState, WorldToUV(pos))]
  /\ cmSteps' = cmSteps + 1
  /\ UNCHANGED otherVars

\* chunks.reset(position, width, height)
CMReset(pos) ==
  /\ cmSteps < MaxSteps
  /\ \E m \in {Reset(CMState, pos, WorldWidth, WorldHeight)} : CMAssign(m)
  /\ cmLast' = [CMLastNone EXCEPT
                  !.op = "reset", !.uv = WorldToUV(pos), !.done = TRUE,
                  !.full = chunkMap # <<>>,
                  !.hadDiff = chunkDiffCache # <<>> /\ entityDiffCache # <<>>]
  /\ cmSteps' = cmSteps + 1
  /\ UNCHANGED otherVars

\* chunks.setID(position, id)
CMSetID(pos, id) ==
  /\ cmSteps < MaxSteps
  /\ \E m \in {SetID(CMState, pos, id)} : CMAssign(m)
  /\ cmLast' = [CMLastNone EXCEPT
                  !.op = "setID", !.uv = WorldToUV(pos),
                  !.done = Loaded(CMState, WorldToUV(pos))]
  /\ cmSteps' = cmSteps + 1
  /\ UNCHANGED otherVars

\* chunks.<op>(position) or chunks.<op>(position, arg), a query or a mutator.
CMCall(op, pos, arg) ==
  /\ cmSteps < MaxSteps
  /\ \E r \in {Call(CMState, op, pos, arg)} :
        /\ CMAssign(r.m)
        /\ cmLast' = [CMLastNone EXCEPT
                        !.op = op, !.uv = WorldToUV(pos),
                        !.done = Loaded(CMState, WorldToUV(pos)),
                        !.ret = r.ret, !.same = (r.m = CMState)]
  /\ cmSteps' = cmSteps + 1
  /\ UNCHANGED otherVars

\* chunks.getChunk(uv).idGrid.<op>(cell, id): getID, popID and replaceID
\* return the id the stack had on top, or undefined; setID and setUnderID
\* return undefined.
IDGridCall(uv, op, cell, id) ==
  /\ cmSteps < MaxSteps
  /\ Loaded(CMState, uv)
  /\ \E idx \in {MapGet(chunkMap, PosToStr(uv))} :
        /\ chunkBuffer' = [chunkBuffer EXCEPT
                             ![idx + 1].idGrid =
                                CASE op = "IDGrid.getID" -> @
                                  [] op = "IDGrid.setID" -> GridSetID(@, PosToStr(cell), id)
                                  [] op = "IDGrid.popID" -> GridPopID(@, PosToStr(cell))
                                  [] op = "IDGrid.replaceID" ->
                                       GridReplaceID(@, PosToStr(cell), id)
                                  [] op = "IDGrid.setUnderID" ->
                                       GridSetUnderID(@, PosToStr(cell), id)]
        /\ cmLast' = [CMLastNone EXCEPT
                        !.op = op, !.uv = uv, !.done = TRUE, !.cell = cell, !.arg = id,
                        !.ret = IF op \in {"IDGrid.getID", "IDGrid.popID", "IDGrid.replaceID"}
                                THEN GridGetID(chunkBuffer[idx + 1].idGrid, PosToStr(cell))
                                ELSE Undefined]
  /\ cmSteps' = cmSteps + 1
  /\ UNCHANGED <<cmPlayerPosition, cmPosition, cmWidth, cmHeight, cmDistance, cmMaxChunks,
                 chunkMap, cmBin, chunkDiffCache, entityDiffCache, localStorage,
                 worldTiles, snap, idSnap, emVars, otherVars>>

\* A level is entered again: the world is made anew from its seed, and
\* chunks.reset(position, width, height) is called.
CMEnterLevel(pos) ==
  /\ cmSteps < MaxSteps
  /\ \E m \in {Reset([CMState EXCEPT !.tiles = TownTemplate], pos, WorldWidth, WorldHeight)} :
        CMAssign(m)
  /\ cmLast' = [CMLastNone EXCEPT !.op = "enter", !.uv = WorldToUV(pos), !.done = TRUE]
  /\ cmSteps' = cmSteps + 1
  /\ UNCHANGED otherVars

CMNext ==
  \/ \E pos \in PlayerPositions, force \in BOOLEAN : CMUpdate(pos, force)
  \/ \E uv \in DirectUVs : CMLoadChunk(uv)
  \/ \E uv \in DirectUVs : CMUnloadChunk(uv)
  \/ \E pos \in WrittenCells, tile \in WrittenTiles : CMSetTile(pos, tile)
  \/ \E pos \in PlayerPositions : CMReset(pos)

\* ------------------------------------------------------------- RingBuffer

\* constructor(data, capacity, length, front, back, lastPop) with its
\* defaults but the capacity: data is a Uint8Array of zeros.
NewRingBuffer(capacity) ==
  [data |-> [i \in 1..capacity |-> 0], capacity |-> capacity, length |-> 0,
   front |-> 0, back |-> 0, lastPop |-> 0]

\* isEmpty()
IsEmpty(r) == r.length = 0

\* isFull()
IsFull(r) == r.length = r.capacity

\* peekFront()
PeekFront(r) ==
  IF IsEmpty(r) THEN Undefined ELSE r.data[((r.front + 1) % r.capacity) + 1]

\* peekBack()
PeekBack(r) == IF IsEmpty(r) THEN Undefined ELSE r.data[r.back + 1]

\* pushFront(n): the buffer after the call and what the call returned.
PushFront(r, n) ==
  IF IsFull(r) THEN [r |-> r, ret |-> n]
  ELSE [r |-> [r EXCEPT !.data[r.front + 1] = ToUint8(n),
                        !.front = (r.front + r.capacity - 1) % r.capacity,
                        !.length = r.length + 1],
        ret |-> Undefined]

\* pushBack(n)
PushBack(r, n) ==
  IF IsFull(r) THEN [r |-> r, ret |-> n]
  ELSE [r |-> [r EXCEPT !.back = (r.back + 1) % r.capacity,
                        !.data[((r.back + 1) % r.capacity) + 1] = ToUint8(n),
                        !.length = r.length + 1],
        ret |-> Undefined]

\* A popFront that reads the slot before it advances front.
PopFrontBeforeAdvance(r) ==
  IF IsEmpty(r) THEN [r |-> r, ret |-> Undefined]
  ELSE [r |-> [r EXCEPT !.front = (r.front + 1) % r.capacity,
                        !.lastPop = r.data[r.front + 1],
                        !.length = r.length - 1],
        ret |-> r.data[r.front + 1]]

\* popFront()
PopFront(r) ==
  IF IsEmpty(r) THEN [r |-> r, ret |-> Undefined]
  ELSE [r |-> [r EXCEPT !.front = (r.front + 1) % r.capacity,
                        !.lastPop = r.data[((r.front + 1) % r.capacity) + 1],
                        !.length = r.length - 1],
        ret |-> r.data[((r.front + 1) % r.capacity) + 1]]

\* popBack()
PopBack(r) ==
  IF IsEmpty(r) THEN [r |-> r, ret |-> Undefined]
  ELSE [r |-> [r EXCEPT !.lastPop = r.data[r.back + 1],
                        !.back = (r.back + r.capacity - 1) % r.capacity,
                        !.length = r.length - 1],
        ret |-> r.data[r.back + 1]]

\* What a call does to a double-ended queue q of capacity c, front first.
DequeCall(op, q, c, n) ==
  CASE op = "pushBack"  -> IF Len(q) = c THEN [q |-> q, ret |-> n]
                           ELSE [q |-> Append(q, n), ret |-> Undefined]
    [] op = "pushFront" -> IF Len(q) = c THEN [q |-> q, ret |-> n]
                           ELSE [q |-> <<n>> \o q, ret |-> Undefined]
    [] op = "popFront"  -> IF Len(q) = 0 THEN [q |-> q, ret |-> Undefined]
                           ELSE [q |-> Tail(q), ret |-> Head(q)]
    [] op = "popBack"   -> IF Len(q) = 0 THEN [q |-> q, ret |-> Undefined]
                           ELSE [q |-> SubSeq(q, 1, Len(q) - 1), ret |-> q[Len(q)]]
    [] op = "peekFront" -> [q |-> q, ret |-> IF Len(q) = 0 THEN Undefined ELSE Head(q)]
    [] op = "peekBack"  -> [q |-> q, ret |-> IF Len(q) = 0 THEN Undefined ELSE q[Len(q)]]

\* The calls of the buffer, and the values pushed: event codes and the
\* bounds of a byte.
RingOps == {"pushBack", "pushFront", "popFront", "popBack", "peekFront", "peekBack"}

RingValues == {0, 1, 2, 255}

RingCapacities == {1, 3}

RBIdle ==
  /\ ring = NewRingBuffer(1)
  /\ rbModel = <<>>
  /\ rbLast = [op |-> "none", arg |-> Undefined, ret |-> Undefined, want |-> Undefined]

\* One call of the buffer: events.pushBack(n), events.popFront(), ...
RBCall(op, n) ==
  /\ \E c \in {CASE op = "pushBack"  -> PushBack(ring, n)
                 [] op = "pushFront" -> PushFront(ring, n)
                 [] op = "popFront"  -> PopFront(ring)
                 [] op = "popBack"   -> PopBack(ring)
                 [] op = "peekFront" -> [r |-> ring, ret |-> PeekFront(ring)]
                 [] op = "peekBack"  -> [r |-> ring, ret |-> PeekBack(ring)]},
        d \in {DequeCall(op, rbModel, ring.capacity, n)} :
        /\ ring' = c.r
        /\ rbModel' = d.q
        /\ rbLast' = [op |-> op, arg |-> n, ret |-> c.ret, want |-> d.ret]
  /\ UNCHANGED <<emVars, cmVars, idVars, doorVars, nineVars, gameVars>>

RBNext ==
  \/ \E n \in RingValues : RBCall("pushBack", n)
  \/ \E n \in RingValues : RBCall("pushFront", n)
  \/ RBCall("popFront", Undefined)
  \/ RBCall("popBack", Undefined)
  \/ RBCall("peekFront", Undefined)
  \/ RBCall("peekBack", Undefined)

\* ------------------------------------------------------------------- Door

TileOpenDoor == 5

TilePortcullisUp == 7

TilePortcullisDown == 8

TileGranite == 11

\* Material.Wood .. Material.Adamantine, Material.Iron, and LockType.None ..
\* LockType.Magic.
Materials == 0..6

MaterialIron == 2

LockTypes == 0..6

\* new Door(), its fields that open, close and randomize write but the
\* hit points.
DoorNew ==
  [tile |-> TileClosedDoor, collision |-> TRUE, occlusion |-> TRUE, open |-> FALSE,
   stuck |-> FALSE, lock |-> 0, material |-> 0]

\* Door.open(door)
DoorOpen(d) ==
  [d EXCEPT !.open = TRUE, !.occlusion = FALSE, !.collision = FALSE, !.stuck = FALSE,
            !.tile = IF d.tile \in {TileClosedDoor, TileGranite} THEN TileOpenDoor
                     ELSE IF d.tile = TilePortcullisDown THEN TilePortcullisUp
                     ELSE d.tile]

\* Door.close(door): the case of Tile.OpenDoor assigns Tile.OpenDoor.
DoorClose(d) ==
  [d EXCEPT !.open = FALSE, !.collision = TRUE,
            !.occlusion = IF d.tile = TileOpenDoor THEN TRUE ELSE d.occlusion,
            !.tile = IF d.tile = TileOpenDoor THEN TileOpenDoor
                     ELSE IF d.tile = TilePortcullisUp THEN TilePortcullisDown
                     ELSE d.tile]

\* The doors Door.randomize leaves shut: a secret door, a door of any
\* material and lock, stuck or not, and a portcullis of iron or better that
\* does not occlude.
ShutDoors ==
  {[DoorNew EXCEPT !.tile = TileGranite]}
    \cup {[DoorNew EXCEPT !.material = m, !.lock = l, !.stuck = st] :
            m \in Materials, l \in LockTypes, st \in BOOLEAN}
    \cup {[DoorNew EXCEPT !.tile = TilePortcullisDown, !.occlusion = FALSE,
                          !.material = IF m < MaterialIron THEN MaterialIron ELSE m,
                          !.lock = l, !.stuck = st] :
            m \in Materials, l \in LockTypes, st \in BOOLEAN}

DoorIdle == door = DoorNew /\ doorLast = [op |-> "none", given |-> DoorNew]

\* Door.open(door) on the door.
DoorOpenCall ==
  /\ door' = DoorOpen(door)
  /\ doorLast' = [op |-> "open", given |-> door]
  /\ UNCHANGED <<emVars, cmVars, idVars, rbVars, nineVars, gameVars>>

\* Door.close(door) on the door.
DoorCloseCall ==
  /\ door' = DoorClose(door)
  /\ doorLast' = [op |-> "close", given |-> door]
  /\ UNCHANGED <<emVars, cmVars, idVars, rbVars, nineVars, gameVars>>

DoorNext == DoorOpenCall \/ DoorCloseCall

\* --------------------------------------------- the nine-slot ChunkManager

\* JSON.stringify(position) of a position {x, y}.
JSONPosition(pos) ==
  <<"{", "\"", "x", "\"", ":">> \o NumToStr(pos.x, 10)
    \o <<",", "\"", "y", "\"", ":">> \o NumToStr(pos.y, 10) \o <<"}">>

\* new Chunk(position); obj tells the objects apart.
ChunkAt(obj, x, y) == [obj |-> obj, position |-> [x |-> x, y |-> y]]

\* new ChunkManager(): an empty cache and nine new chunks around (0, 0).
NineNew ==
  [cache |-> <<>>,
   root |-> ChunkAt(1, 0, 0),
   N    |-> ChunkAt(2, 0, 0 - ChunkSize),
   NE   |-> ChunkAt(3, ChunkSize, 0 - ChunkSize),
   E    |-> ChunkAt(4, ChunkSize, 0),
   SE   |-> ChunkAt(5, ChunkSize, ChunkSize),
   S    |-> ChunkAt(6, 0, ChunkSize),
   SW   |-> ChunkAt(7, 0 - ChunkSize, ChunkSize),
   W    |-> ChunkAt(8, 0 - ChunkSize, 0),
   NW   |-> ChunkAt(9, 0 - ChunkSize, 0 - ChunkSize)]

\* this.cache[JSON.stringify(a.position)] = a, then b, then c.
Cached(cache, a, b, c) ==
  DictSet(DictSet(DictSet(cache, JSONPosition(a.position), a),
                  JSONPosition(b.position), b),
          JSONPosition(c.position), c)

\* reroot, case Cardinal.N
RerootN(m, topChunk, midChunk, bottomChunk) ==
  [m EXCEPT !.cache = Cached(@, m.SW, m.S, m.SE),
            !.SW = m.W, !.S = m.root, !.SE = m.E,
            !.W = m.NW, !.root = m.N, !.E = m.NE,
            !.NW = topChunk, !.N = midChunk, !.NE = bottomChunk]

\* reroot, case Cardinal.E
RerootE(m, topChunk, midChunk, bottomChunk) ==
  [m EXCEPT !.cache = Cached(@, m.NW, m.W, m.SW),
            !.NW = m.N, !.W = m.root, !.SW = m.S,
            !.N = m.NE, !.root = m.E, !.S = m.SE,
            !.NE = topChunk, !.E = midChunk, !.SE = bottomChunk]

\* A case Cardinal.S that shifts the root row from the wrong side.
RerootSFromNorth(m, topChunk, midChunk, bottomChunk) ==
  [m EXCEPT !.cache = Cached(@, m.NW, m.N, m.NE),
            !.NW = m.W, !.N = m.root, !.NE = m.E,
            !.W = m.NW, !.root = m.N, !.E = m.NE,
            !.SW = topChunk, !.S = midChunk, !.SE = bottomChunk]

\* reroot, case Cardinal.S
RerootS(m, topChunk, midChunk, bottomChunk) ==
  [m EXCEPT !.cache = Cached(@, m.NW, m.N, m.NE),
            !.NW = m.W, !.N = m.root, !.NE = m.E,
            !.W = m.SW, !.root = m.S, !.E = m.SE,
            !.SW = topChunk, !.S = midChunk, !.SE = bottomChunk]

\* reroot, case Cardinal.W
RerootW(m, topChunk, midChunk, bottomChunk) ==
  [m EXCEPT !.cache = Cached(@, m.NE, m.E, m.SE),
            !.NE = m.N, !.E = m.root, !.SE = m.S,
            !.N = m.NW, !.root = m.W, !.S = m.SW,
            !.NW = topChunk, !.W = midChunk, !.SW = bottomChunk]

\* reroot(cardinal, topChunk, midChunk, bottomChunk)
Reroot(m, cardinal, topChunk, midChunk, bottomChunk) ==
  CASE cardinal = "N" -> RerootN(m, topChunk, midChunk, bottomChunk)
    [] cardinal = "E" -> RerootE(m, topChunk, midChunk, bottomChunk)
    [] cardinal = "S" -> RerootS(m, topChunk, midChunk, bottomChunk)
    [] cardinal = "W" -> RerootW(m, topChunk, midChunk, bottomChunk)
    [] OTHER -> m

Cardinals == {"N", "E", "S", "W"}

\* The positions of the three chunks that come into range when the root
\* moves one chunk in a direction: top or left first.
Incoming(m, cardinal) ==
  CASE cardinal = "N" -> [i \in 1..3 |-> [x |-> <<m.NW, m.N, m.NE>>[i].position.x,
                                           y |-> m.N.position.y - ChunkSize]]
    [] cardinal = "E" -> [i \in 1..3 |-> [x |-> m.E.position.x + ChunkSize,
                                           y |-> <<m.NE, m.E, m.SE>>[i].position.y]]
    [] cardinal = "S" -> [i \in 1..3 |-> [x |-> <<m.SW, m.S, m.SE>>[i].position.x,
                                           y |-> m.S.position.y + ChunkSize]]
    [] cardinal = "W" -> [i \in 1..3 |-> [x |-> m.W.position.x - ChunkSize,
                                           y |-> <<m.NW, m.W, m.SW>>[i].position.y]]

\* The chunks a reroot is given: those the cache holds under the incoming
\* positions, or three new chunks at these positions.
GivenChunks(m, cardinal, fromCache, made) ==
  [i \in 1..3 |->
     IF fromCache THEN m.cache[JSONPosition(Incoming(m, cardinal)[i])]
     ELSE ChunkAt(made + i, Incoming(m, cardinal)[i].x, Incoming(m, cardinal)[i].y)]

NineLastNone ==
  [op |-> "none", prev |-> "none", given |-> <<>>, met |-> NineNew, steps |-> 0, made |-> 9]

NineIdle == nine = NineNew /\ nineLast = NineLastNone

\* cm.reroot(cardinal, ...) with new chunks, or with the chunks cm.cache
\* holds under the incoming positions.
RerootCall(cardinal, fromCache) ==
  /\ nineLast.steps < MaxSteps
  /\ fromCache => \A i \in 1..3 : JSONPosition(Incoming(nine, cardinal)[i]) \in DOMAIN nine.cache
  /\ \E g \in {GivenChunks(nine, cardinal, fromCache, nineLast.made)} :
        /\ nine' = Reroot(nine, cardinal, g[1], g[2], g[3])
        /\ nineLast' = [op |-> cardinal, prev |-> nineLast.op, given |-> g, met |-> nine,
                        steps |-> nineLast.steps + 1,
                        made |-> IF fromCache THEN nineLast.made ELSE nineLast.made + 3]
  /\ UNCHANGED <<emVars, cmVars, idVars, rbVars, doorVars, gameVars>>

NineNext == \E cardinal \in Cardinals, fromCache \in BOOLEAN : RerootCall(cardinal, fromCache)

\* ------------------------------------------------------------------ runGame

\* Event of src/game/types.js.
EventPlayerMoved == 1

EventEnterMainMenu == 2

EventExitMainMenu == 3

EventEnterTutorial == 4

\* GameState of src/game/main.js.
StateMainMenu == 0

StateLoading == 2

StateRunning == 3

\* The size new RingBuffer() takes when it is given none.
EventsCapacity == 32

\* The tag the Player class carries: EntityType.Player of
\* src/game/archetype/archetype.js, which player.js imports, and the one of
\* src/game/types.js, which the entity manager registers.
PlayerTagArchetype == 0

PlayerTagTypes == 3

PlayerTags == {PlayerTagArchetype, PlayerTagTypes}

\* EntityType.Monster, the same in both.
MonsterTag == 2

\* Player.speed
PlayerSpeed == 24

\* MainMenuOption
MenuContinue == "Continue"

MenuNewGame == "New Game"

MenuTutorial == "Tutorial"

\* runGame() up to its loop: the Game object, with EnterMainMenu queued.
\* saved tells whether localStorage holds a save, tag is the tag of the
\* Player class. pc is where the loop stands: "handle" before handleEvents,
\* "await" in the await of an input, "halted" after a throw.
GameNew(saved, tag) ==
  [state |-> StateMainMenu,
   menu |-> IF saved THEN <<MenuContinue, MenuNewGame, MenuTutorial>>
            ELSE <<MenuNewGame, MenuTutorial>>,
   selection |-> 0,
   events |-> PushBack(NewRingBuffer(EventsCapacity), EventEnterMainMenu).r,
   playerTag |-> tag,
   playerId |-> Null,
   monsterId |-> Null,
   position |-> [x |-> 0, y |-> 0],
   orientation |-> "Up",
   moves |-> 0,
   turn |-> 0,
   time |-> 0,
   pc |-> "handle"]

GameLastNone ==
  [pending |-> <<EventEnterMainMenu>>, movedTo |-> <<>>, handled |-> <<>>,
   updates |-> <<>>, wanted |-> <<>>, moved |-> <<>>, inputs |-> 0, menuKeys |-> 0]

\* The game is not run.
GameIdle == game = GameNew(FALSE, PlayerTagTypes) /\ gameLast = GameLastNone

\* ---------------------------------------------------------------- id codec

\* The slot indices the codec is run on: the lowest, the highest, and every
\* power of two and its predecessor below 2^24.
IdxSamples ==
  (0..MaxLowIdx) \cup {2^k : k \in 0..23} \cup {2^k - 1 : k \in 1..24}
                 \cup {2^24 - 1 - k : k \in 0..MaxLowIdx}

IDIdle == idType = 0 /\ idIdx = 0 /\ idOut = 0 /\ idDone = FALSE

\* Nothing but the two managers is used.
Idle == IDIdle /\ RBIdle /\ DoorIdle /\ NineIdle /\ GameIdle

IDInit == idType \in 0..255 /\ idIdx \in IdxSamples /\ idOut = 0 /\ idDone = FALSE

\* EntityManager.createID(type, idx)
IDEncode ==
  /\ ~idDone
  /\ idOut' = CreateID(idType, idIdx)
  /\ idDone' = TRUE
  /\ UNCHANGED <<idType, idIdx, emVars, cmVars, rbVars, doorVars, nineVars, gameVars>>

IDNext == IDEncode

\* ----------------------------------------------------------- specifications

\* The entity manager alone, beside a manager of one chunk that is not called.
InitEM == CMInitWith(0) /\ Idle

SpecEM == InitEM /\ [][EMNext]_vars

\* The chunk manager with the world, the store and the entity manager it uses.
InitCM == (\E d \in DistanceArgs : CMInitWith(d)) /\ Idle

SpecCM == InitCM /\ [][CMNext]_vars

\* The manager the game makes for the town, of radius 2.
InitTown == CMInitWith(2) /\ Idle

SpecTown == InitTown /\ [][CMNext]_vars

\* new EntityManager(), with its ghosts, as one value.
EMNew ==
  [data |-> EMDataInit, bin |-> [t \in EntityTypes |-> <<>>], heap |-> <<>>,
   last |-> EMLastNone, stale |-> {}, lastFreed |-> [t \in EntityTypes |-> NoSlot]]

\* The variables hold the manager m and what it was given.
CMInitFrom(m) ==
  /\ cmPlayerPosition = m.playerPosition
  /\ cmPosition = m.position
  /\ cmWidth = m.width
  /\ cmHeight = m.height
  /\ cmDistance = m.distance
  /\ cmMaxChunks = m.maxChunks
  /\ chunkMap = m.chunkMap
  /\ chunkBuffer = m.chunkBuffer
  /\ cmBin = m.bin
  /\ chunkDiffCache = m.chunkDiffCache
  /\ entityDiffCache = m.entityDiffCache
  /\ localStorage = m.store
  /\ worldTiles = m.tiles
  /\ snap = m.snap
  /\ idSnap = m.idSnap
  /\ emData = m.em.data
  /\ emBin = m.em.bin
  /\ heap = m.em.heap
  /\ emLast = m.em.last
  /\ stale = m.em.stale
  /\ lastFreed = m.em.lastFreed
  /\ cmLast = CMLastNone
  /\ cmSteps = 0

\* A game under way: the manager of radius d constructed at the spawn and
\* updated there with force, as the game does when a level is entered.
CMStarted(d) ==
  Update(NewManager(Spawn, WorldWidth, WorldHeight, d, TownTemplate, <<>>, EMNew),
         Spawn, TRUE)

\* The calls of a game under way on the corner chunk and its cells; the id
\* of a monster is pushed on the cell of the closed door.
PlayNext ==
  \/ \E pos \in {Spawn, [x |-> 8, y |-> 8]}, force \in BOOLEAN : CMUpdate(pos, force)
  \/ CMLoadChunk([x |-> 0, y |-> 0])
  \/ CMUnloadChunk([x |-> 0, y |-> 0])
  \/ \E pos \in WrittenCells : CMSetTile(pos, TileWall)
  \/ CMReset(Spawn)
  \/ CMSetID([x |-> 4, y |-> 4], CreateID(2, 0))
  \/ CMEnterLevel(Spawn)

InitPlay == (\E m \in {CMStarted(1)} : CMInitFrom(m)) /\ Idle

SpecPlay == InitPlay /\ [][PlayNext]_vars

\* The queries and the mutators of a game under way, at the cell of a door in
\* the corner chunk, at a cell of the chunk (2,0), which is not resident once
\* the player is in the corner chunk, and at a cell west of the world.
Queries == {"getTile", "getCollision", "getVisibility", "getID"}

Mutators == {"setTile", "setCollision", "setVisibility", "setID", "replaceID", "popID"}

CalledCells == {[x |-> 4, y |-> 4], [x |-> 40, y |-> 8], [x |-> -1, y |-> 0]}

\* The argument a mutator is called with: a tile, a state, or an id.
CallArg(op) ==
  CASE op = "setTile" -> TileWall
    [] op = "setCollision" -> 1
    [] op \in {"setID", "replaceID"} -> CreateID(2, 0)
    [] OTHER -> Undefined

CallNext ==
  \/ \E pos \in {Spawn, [x |-> 8, y |-> 8]} : CMUpdate(pos, FALSE)
  \/ \E op \in Queries, pos \in CalledCells : CMCall(op, pos, CallArg(op))
  \/ \E op \in Mutators, pos \in CalledCells : CMCall(op, pos, CallArg(op))

SpecCall == InitPlay /\ [][CallNext]_vars

\* A store that another program has written to: the entry of the corner chunk
\* holds, beside the record "5,5:4", a record with no colon and no value, a
\* record that is no hexadecimal text, a record with an empty value, or a
\* record whose value is no hexadecimal text.
CorruptDiffs ==
  {<<"3", ",", "3", ";", "5", ",", "5", ":", "4">>,
   <<"z", "z", ";", "5", ",", "5", ":", "4">>,
   <<"5", ",", "5", ":", "4", ";", "7", ",", "7", ":">>,
   <<"5", ",", "5", ":", "4", ";", "7", ",", "7", ":", "z", "z">>}

CorruptNext ==
  \/ \E pos \in {Spawn, [x |-> 8, y |-> 8]}, force \in BOOLEAN : CMUpdate(pos, force)
  \/ CMLoadChunk([x |-> 0, y |-> 0])
  \/ CMUnloadChunk([x |-> 0, y |-> 0])
  \/ \E pos \in WrittenCells : CMSetTile(pos, TileWall)

InitCorrupt ==
  /\ \E d \in CorruptDiffs :
        \E m \in {NewManager(Spawn, WorldWidth, WorldHeight, 1, TownTemplate,
                             DictSet(<<>>, ToChunkString(WorldDepth, [x |-> 0, y |-> 0]), d),
                             EMNew)} : CMInitFrom(m)
  /\ Idle

SpecCorrupt == InitCorrupt /\ [][CorruptNext]_vars

\* The manager after chunk (0,0) has been loaded, edited in one cell and
\* unloaded: its diff is in the cache and in the store, no chunk is resident.
InitEdited ==
  /\ \E pos \in WrittenCells :
        \E m \in {UnloadChunk(
                    SetTile(LoadChunk(NewManager(Spawn, WorldWidth, WorldHeight, 1,
                                                 TownTemplate, <<>>, EMNew),
                                      [x |-> 0, y |-> 0]),
                            pos, TileWall),
                    [x |-> 0, y |-> 0])} : CMInitFrom(m)
  /\ Idle

SpecEdited == InitEdited /\ [][CMNext]_vars

\* The ids the loader gives the doors it generates.
DoorIDs == {CreateID(DoorType, i) : i \in 0..(MaxEntities - 1)}

\* The corner chunk is loaded and evicted while the game inserts doors and
\* deletes, removes and looks up doors.
EvictedNext ==
  \/ CMLoadChunk([x |-> 0, y |-> 0])
  \/ CMUnloadChunk([x |-> 0, y |-> 0])
  \/ EMInsert(DoorType)
  \/ \E id \in DoorIDs : EMDelete(id)
  \/ \E id \in DoorIDs : EMRemove(id)
  \/ \E id \in DoorIDs : EMLookup(id)

InitEvicted == CMInitWith(1) /\ Idle

SpecEvicted == InitEvicted /\ [][EvictedNext]_vars

\* The methods of the ID grid of the corner chunk of a game under way, called
\* on the cell of the door and on an empty cell, with the ids of monsters.
GridCells == {[x |-> 4, y |-> 4], [x |-> 5, y |-> 5]}

GridNext ==
  \/ \E cell \in GridCells : IDGridCall([x |-> 0, y |-> 0], "IDGrid.getID", cell, Undefined)
  \/ \E cell \in GridCells, i \in 0..1 :
        IDGridCall([x |-> 0, y |-> 0], "IDGrid.setID", cell, CreateID(2, i))
  \/ \E cell \in GridCells : IDGridCall([x |-> 0, y |-> 0], "IDGrid.popID", cell, Undefined)
  \/ \E cell \in GridCells :
        IDGridCall([x |-> 0, y |-> 0], "IDGrid.replaceID", cell, CreateID(2, 2))
  \/ \E cell \in GridCells :
        IDGridCall([x |-> 0, y |-> 0], "IDGrid.setUnderID", cell, CreateID(2, 3))

SpecGrid == InitPlay /\ [][GridNext]_vars

\* generateTestMap(): the world is 16 by 16 chunks and the spawn is its
\* centre; the wall around it and the rectangle of closed doors. The shops,
\* which lie in the chunks of the top left corner, are left out.
TestMapSize == 16 * ChunkSize

TestMapSpawn == [x |-> TestMapSize \div 2, y |-> TestMapSize \div 2]

TestMapTemplate ==
  DrawRectangle(DrawRectangle(<<>>, TileWall, [x |-> 0, y |-> 0], TestMapSize, TestMapSize),
                TileClosedDoor,
                [x |-> TestMapSize \div 4, y |-> TestMapSize \div 4],
                TestMapSize \div 4, TestMapSize \div 4)

\* The player walks down the test map, through the chunks (8,9), (8,10) and
\* (8,13), on a manager of radius 1 made at the spawn.
TestMapPositions ==
  {[x |-> TestMapSpawn.x, y |-> 9 * ChunkSize], [x |-> TestMapSpawn.x, y |-> 10 * ChunkSize],
   [x |-> TestMapSpawn.x, y |-> 13 * ChunkSize]}

TestMapNext ==
  \/ \E pos \in TestMapPositions, force \in BOOLEAN : CMUpdate(pos, force)
  \/ CMLoadChunk(WorldToUV(TestMapSpawn))
  \/ \E pos \in TestMapPositions : CMUnloadChunk(WorldToUV(pos))
  \/ \E pos \in TestMapPositions : CMSetTile(pos, TileWall)

InitTestMap ==
  /\ \E m \in {NewManager(TestMapSpawn, TestMapSize, TestMapSize, 1, TestMapTemplate,
                            <<>>, EMNew)} : CMInitFrom(m)
  /\ Idle

SpecTestMap == InitTestMap /\ [][TestMapNext]_vars

\* -------------------------------------------------- the game loop of runGame

\* Direction of src/game/types.js.
Directions ==
  [Up |-> [x |-> 0, y |-> -1], Down |-> [x |-> 0, y |-> 1],
   Left |-> [x |-> -1, y |-> 0], Right |-> [x |-> 1, y |-> 0]]

MoveKeys == {"Up", "Down", "Left", "Right"}

\* The keys playerInput detects: the four moves, and the zoom, mode and debug
\* keys, which redraw and change nothing else.
PlayerKeys == MoveKeys \cup {"Other"}

\* The keys menuInput detects.
MenuKeys == {"Up", "Down", "Enter"}

\* moveEntity returns false.
MoveFailed(g, m) == [g |-> g, m |-> m, ret |-> FALSE, threw |-> FALSE]

\* A moveEntity that queues PlayerMoved twice.
MovedPushTwice(g, m, id, dir, new) ==
  [g |-> [g EXCEPT !.position = new,
                   !.orientation = dir,
                   !.events = IF id = g.playerId
                              THEN PushBack(PushBack(@, EventPlayerMoved).r,
                                            EventPlayerMoved).r
                              ELSE @],
   m |-> PopID(SetID(m, new, id), g.position),
   ret |-> TRUE,
   threw |-> FALSE]

\* moveEntity past its checks: the id is put on the new cell and taken off
\* the old one, the entity takes the position and the orientation, and the
\* move of the player queues PlayerMoved.
Moved(g, m, id, dir, new) ==
  [g |-> [g EXCEPT !.position = new,
                   !.orientation = dir,
                   !.events = IF id = g.playerId
                              THEN PushBack(@, EventPlayerMoved).r
                              ELSE @],
   m |-> PopID(SetID(m, new, id), g.position),
   ret |-> TRUE,
   threw |-> FALSE]

\* moveEntity at its check of the entity on the new cell, eid. A truthy eid
\* is looked up and its collision read: the read throws when the lookup
\* found no object. Doors, monsters and the player are made with collision
\* true and the loop never clears it.
MoveOnto(g, m, id, dir, new, eid) ==
  IF eid \notin {Undefined, 0}
  THEN IF Lookup(m.em.data, eid) \in {Undefined, Null, TypeErr}
       THEN [g |-> g, m |-> m, ret |-> FALSE, threw |-> TRUE]
       ELSE MoveFailed(g, m)
  ELSE Moved(g, m, id, dir, new)

\* moveEntity at its checks of the bounds and of the terrain.
MoveEntityTo(g, m, id, dir, new) ==
  IF new.x < 0 \/ new.x >= TestMapSize \/ new.y < 0 \/ new.y >= TestMapSize
  THEN MoveFailed(g, m)
  ELSE IF GetCollision(m, new) = 1 THEN MoveFailed(g, m)
  ELSE MoveOnto(g, m, id, dir, new, GetID(m, new))

\* moveEntity(id, dir, game), for the id of the player.
MoveEntity(g, m, id, dir) ==
  IF Lookup(m.em.data, id) = Undefined THEN MoveFailed(g, m)
  ELSE MoveEntityTo(g, m, id, dir,
                    [x |-> g.position.x + Directions[dir].x,
                     y |-> g.position.y + Directions[dir].y])

\* initTutorial from its setID calls on.
TutorialPlaced(g, m, playerId, monsterId) ==
  [g |-> [g EXCEPT !.state = StateRunning, !.playerId = playerId,
                   !.monsterId = monsterId, !.position = TestMapSpawn],
   m |-> SetID(SetID(m, TestMapSpawn, playerId),
               [x |-> TestMapSpawn.x + 2, y |-> TestMapSpawn.y], monsterId),
   threw |-> FALSE]

\* initTutorial from new World(seed) on: the test map, the manager of
\* radius 1 at the spawn, and its forced update.
TutorialChunks(g, store, em, playerId, monsterId) ==
  TutorialPlaced(g,
                 Update(NewManager(TestMapSpawn, TestMapSize, TestMapSize, 1,
                                   TestMapTemplate, store, em),
                        TestMapSpawn, TRUE),
                 playerId, monsterId)

\* initTutorial after its two inserts.
TutorialInserted(g, store, em, playerId) ==
  TutorialChunks(g, store, em, playerId, em.last.ret)

\* initTutorial after insert(game.player).
TutorialWithPlayer(g, store, em) ==
  TutorialInserted(g, store, EMInsertOp(em, MonsterTag), em.last.ret)

\* initTutorial(game, seed). insert reads this.bin[type].length: it throws
\* on a tag the manager has no array for, and the state stays Loading.
InitTutorial(g, m) ==
  IF g.playerTag \notin EntityTypes
  THEN [g |-> [g EXCEPT !.state = StateLoading], m |-> m, threw |-> TRUE]
  ELSE TutorialWithPlayer([g EXCEPT !.state = StateLoading], m.store,
                          EMInsertOp(m.em, g.playerTag))

\* The drain after initTutorial ended as t.
AfterTutorial(s, t) == [s EXCEPT !.g = t.g, !.m = t.m, !.halted = t.threw]

\* The switch of handleEvents on the event e it popped.
HandleEvent(s, e) ==
  CASE e = EventPlayerMoved ->
         [s EXCEPT !.g.moves = (@ + 1) % PlayerSpeed,
                   !.g.turn = IF (s.g.moves + 1) % PlayerSpeed = 0 THEN @ + 1 ELSE @,
                   !.g.time = IF (s.g.moves + 1) % PlayerSpeed = 0 THEN @ + 10 ELSE @,
                   !.m = Update(s.m, s.g.position, FALSE),
                   !.updates = Append(@, s.g.position)]
    [] e = EventEnterMainMenu -> [s EXCEPT !.g.state = StateMainMenu, !.g.selection = 0]
    [] e = EventEnterTutorial -> AfterTutorial(s, InitTutorial(s.g, s.m))
    [] OTHER -> s

\* handleEvents(game): the queue is popped from the front until it is empty
\* or a handler throws. handled and updates are the events popped and the
\* positions update was given, in order.
RECURSIVE HandleEvents(_)
HandlePopped(s, p) ==
  HandleEvents(HandleEvent([s EXCEPT !.g.events = p.r,
                                     !.handled = Append(@, p.ret)], p.ret))

HandleEvents(s) ==
  IF s.halted \/ s.g.events.length = 0 THEN s
  ELSE HandlePopped(s, PopFront(s.g.events))

\* The loop of runGame from handleEvents to the await of the next input.
\* A state with no input to await sends the loop round again.
GameHandleEvents ==
  /\ game.pc = "handle"
  /\ \E s \in {HandleEvents([g |-> game, m |-> CMState, handled |-> <<>>,
                             updates |-> <<>>, halted |-> FALSE])} :
        /\ game' = [s.g EXCEPT !.pc = IF s.halted THEN "halted"
                                      ELSE IF s.g.state \in {StateMainMenu, StateRunning}
                                      THEN "await" ELSE "handle"]
        /\ CMAssign(s.m)
        /\ gameLast' = [gameLast EXCEPT
                          !.handled = s.handled, !.updates = s.updates,
                          !.wanted = gameLast.pending, !.moved = gameLast.movedTo,
                          !.pending = <<>>, !.movedTo = <<>>]
  /\ UNCHANGED <<cmLast, cmSteps, idVars, rbVars, doorVars, nineVars>>

\* handleSelectOption(game)
HandleSelectOption(g) ==
  IF g.menu[g.selection + 1] = MenuTutorial
  THEN [g EXCEPT !.events = PushBack(@, EventEnterTutorial).r]
  ELSE g

\* The key handler of menuInput on a key it detects.
MenuKey(g, key) ==
  CASE key = "Up" -> [g EXCEPT !.selection = (@ + Len(g.menu) - 1) % Len(g.menu)]
    [] key = "Down" -> [g EXCEPT !.selection = (@ + 1) % Len(g.menu)]
    [] key = "Enter" ->
         HandleSelectOption([g EXCEPT !.events = PushBack(@, EventExitMainMenu).r])

\* The events the menu is to queue on a key.
MenuWanted(g, key) ==
  IF key # "Enter" THEN <<>>
  ELSE IF g.menu[g.selection + 1] = MenuTutorial
  THEN <<EventExitMainMenu, EventEnterTutorial>>
  ELSE <<EventExitMainMenu>>

\* await menuInput(Game), resolved by a key. The runs give the menu as many
\* keys as it has options, which reach and enter any of them.
GameMenuInput(key) ==
  /\ game.pc = "await"
  /\ game.state = StateMainMenu
  /\ gameLast.menuKeys < Len(game.menu)
  /\ game' = [MenuKey(game, key) EXCEPT !.pc = "handle"]
  /\ gameLast' = [gameLast EXCEPT !.pending = @ \o MenuWanted(game, key),
                                  !.menuKeys = @ + 1]
  /\ UNCHANGED <<emVars, cmVars, idVars, rbVars, doorVars, nineVars>>

\* await playerInput(Game) on a key: a move key calls moveEntity for the
\* player; the handler resolves the await unless moveEntity threw.
GamePlayerInput(key) ==
  /\ game.pc = "await"
  /\ game.state = StateRunning
  /\ gameLast.inputs < MaxSteps
  /\ IF key \in MoveKeys
     THEN \E r \in {MoveEntity(game, CMState, game.playerId, key)} :
            /\ game' = [r.g EXCEPT !.pc = IF r.threw THEN "await" ELSE "handle"]
            /\ CMAssign(r.m)
            /\ gameLast' = [gameLast EXCEPT
                              !.inputs = @ + 1,
                              !.pending = IF r.ret THEN Append(@, EventPlayerMoved) ELSE @,
                              !.movedTo = IF r.ret THEN Append(@, r.g.position) ELSE @]
            /\ UNCHANGED <<cmLast, cmSteps>>
     ELSE /\ game' = [game EXCEPT !.pc = "handle"]
          /\ gameLast' = [gameLast EXCEPT !.inputs = @ + 1]
          /\ UNCHANGED <<emVars, cmVars>>
  /\ UNCHANGED <<idVars, rbVars, doorVars, nineVars>>

GameNext ==
  \/ GameHandleEvents
  \/ \E key \in MenuKeys : GameMenuInput(key)
  \/ \E key \in PlayerKeys : GamePlayerInput(key)

\* runGame at the top of its loop, with and without a save in the store.
InitGame ==
  /\ CMInitWith(0)
  /\ IDIdle
  /\ RBIdle
  /\ DoorIdle
  /\ NineIdle
  /\ \E saved \in BOOLEAN, tag \in PlayerTags : game = GameNew(saved, tag)
  /\ gameLast = GameLastNone

SpecGame == InitGame /\ [][GameNext]_vars

\* A step of GameHandleEvents, told by what it does to pc: no other action is
\* enabled before handleEvents, and handleEvents returns or throws.
LoopStep == game.pc = "handle" /\ game.pc' # "handle"

\* The loop is one async function: when the await of an input resolves, the
\* loop goes on to handleEvents. This is weak fairness of GameHandleEvents,
\* written out with what enables the action, game.pc = "handle".
LoopGoesOn == []<>(game.pc # "handle") \/ []<><<LoopStep>>_vars

SpecGameFair == SpecGame /\ LoopGoesOn

\* The id codec on its inputs.
\* The nine-slot manager alone, as its constructor made it.
InitNine == CMInitWith(0) /\ Idle

SpecNine == InitNine /\ [][NineNext]_vars

\* A door alone, as randomize left it shut.
InitDoor ==
  /\ CMInitWith(0)
  /\ IDIdle
  /\ RBIdle
  /\ NineIdle
  /\ GameIdle
  /\ door \in ShutDoors
  /\ doorLast = [op |-> "none", given |-> DoorNew]

SpecDoor == InitDoor /\ [][DoorNext]_vars

\* The buffer alone, of each capacity, beside managers that are not called.
InitRing ==
  /\ CMInitWith(0)
  /\ IDIdle
  /\ DoorIdle
  /\ NineIdle
  /\ GameIdle
  /\ \E c \in RingCapacities : ring = NewRingBuffer(c)
  /\ rbModel = <<>>
  /\ rbLast = [op |-> "none", arg |-> Undefined, ret |-> Undefined, want |-> Undefined]

SpecRing == InitRing /\ [][RBNext]_vars

InitID == CMInitWith(0) /\ IDInit /\ RBIdle /\ DoorIdle /\ NineIdle /\ GameIdle

SpecID == InitID /\ [][IDNext]_vars

\* Everything together: the game calls both managers.
Init == InitCM

Next == EMNext \/ CMNext

Spec == Init /\ [][Next]_vars

\* ------------------------------------------------------ ChunkManager claims

\* The buffer indices chunkMap maps to, and the ones in the bin.
HeldSlots == {chunkMap[k].val : k \in 1..Len(chunkMap)}

FreeSlots == {cmBin[k] : k \in 1..Len(cmBin)}

\* Whether the UV <<u, v>> is resident, and whether it lies in the world.
Resident(u, v) == \E k \in 1..Len(chunkMap) : chunkMap[k].key = PosToStr([x |-> u, y |-> v])

InWorld(u, v) == 0 <= u /\ u < cmWidth /\ 0 <= v /\ v < cmHeight

\* The L-infinity distance of the UV <<u, v>> from the player's chunk.
FromPlayer(u, v) ==
  LET dx == IF u >= cmPlayerPosition.x THEN u - cmPlayerPosition.x ELSE cmPlayerPosition.x - u
      dy == IF v >= cmPlayerPosition.y THEN v - cmPlayerPosition.y ELSE cmPlayerPosition.y - v
  IN IF dx >= dy THEN dx ELSE dy

\* The UVs of the world and one ring around it.
NearUVs == {<<u, v>> : u \in (0 - 2)..(cmWidth + 1), v \in (0 - 2)..(cmHeight + 1)}

\* The tile grid of the chunk the last call named, and its generated baseline.
LastTileGrid == chunkBuffer[MapGet(chunkMap, PosToStr(cmLast.uv)) + 1].tileGrid

LastBaseline == BaselineOf(worldTiles, UVToWorld(cmLast.uv))

LastChunkKey == ToChunkString(WorldDepth, cmLast.uv)

\* C1 - Pool conservation: after any sequence of loadChunk, unloadChunk,
\* update and reset calls, |bin| + |chunkMap| = maxChunks, and the indices in
\* bin and the indices chunkMap maps to are disjoint, hold no duplicate, and
\* together are exactly 0..maxChunks-1.
C1_PoolConservation ==
  /\ Len(cmBin) + Len(chunkMap) = cmMaxChunks
  /\ HeldSlots \cap FreeSlots = {}
  /\ Cardinality(HeldSlots) = Len(chunkMap)
  /\ Cardinality(FreeSlots) = Len(cmBin)
  /\ HeldSlots \cup FreeSlots = 0..(cmMaxChunks - 1)

\* A chunk has been unloaded while others stay resident: an index went back
\* to a bin that had handed out several.
C1_Witness ==
  /\ cmLast.op = "unloadChunk"
  /\ cmLast.done
  /\ Len(chunkMap) >= 3
  /\ Len(cmBin) >= 2

\* Whether strToPos reads the key of the UV <<u, v>> back as that UV.
KeyReadsBack(u, v) == StrToPos(PosToStr([x |-> u, y |-> v])) = [x |-> u, y |-> v]

C3_DiffRoundTrip ==
  (/\ cmLast.op = "loadChunk"
   /\ cmLast.done
   /\ cmLast.hadSnap
   /\ Cardinality(cmLast.snapDiff) = 1)
    => \A i \in Cells :
         LastTileGrid[i] = IF \E c \in cmLast.snapDiff : c[1] = i
                           THEN (CHOOSE c \in cmLast.snapDiff : c[1] = i)[2]
                           ELSE LastBaseline[i]

\* C4 - Diff idempotence: unloading a chunk whose tiles equal the generated
\* baseline leaves no chunkDiffCache entry for its key and writes nothing to
\* the store, and a load that finds neither a cached nor a stored diff yields
\* exactly the generated baseline.
C4_DiffIdempotence ==
  /\ (cmLast.op = "unloadChunk" /\ cmLast.done /\ cmLast.atBaseline)
       => (LastChunkKey \notin DOMAIN chunkDiffCache /\ ~cmLast.wrote)
  /\ (cmLast.op = "loadChunk" /\ cmLast.done /\ ~cmLast.hadDiff)
       => LastTileGrid = LastBaseline

\* A chunk with entity tiles in its template was unloaded at its baseline and
\* has been loaded again with no diff.
C4_Witness ==
  /\ cmLast.op = "loadChunk"
  /\ cmLast.done
  /\ ~cmLast.hadDiff
  /\ cmLast.hadSnap
  /\ cmLast.snapDiff = {}
  /\ cmLast.uv = [x |-> 0, y |-> 0]
  /\ Len(heap) > 0

\* ----------------------------------------------------- EntityManager claims

\* The top 8 bits of a 32-bit id read as an unsigned integer, and its low 24
\* bits, by division.
TopByte(id) == IF id < 0 THEN 256 + (id \div 16777216) ELSE id \div 16777216

Low24(id) == id % 16777216

\* The smallest element of a non-empty set of indices.
MinOf(S) == CHOOSE i \in S : \A j \in S : i <= j

\* The handles of the id the last call was given that were freed and have
\* seen an insert of their archetype since.
ReusedHandles == {h \in stale : h.id = emLast.id /\ h.reused}

\* C5 - Stale handle after reuse: after delete(id) or remove(id) followed by
\* an insert of the same archetype, lookup on the old id returns not found,
\* never the newly inserted entity.
C5_StaleHandleNotFound ==
  (emLast.op = "lookup" /\ ReusedHandles # {}) => emLast.ret \in {Null, Undefined}

\* C6 - Slot reuse is LIFO: the insert that follows the freeing of a live
\* entity of the same archetype stores the new entity at the slot freed most
\* recently, and the id it returns decodes to that index.
C6_ReuseLIFO ==
  (emLast.op = "insert" /\ emLast.freedBefore # NoSlot) =>
    /\ emLast.idx = emLast.freedBefore
    /\ emData[emLast.type][emLast.freedBefore + 1] = emLast.ref
    /\ GetIDIndex(emLast.ret) = emLast.freedBefore
    /\ GetIDType(emLast.ret) = emLast.type

\* Two slots of the archetype were free, the higher one freed last, and the
\* insert took the higher one.
C6_Witness ==
  /\ emLast.op = "insert"
  /\ emLast.freedBefore = 1
  /\ emLast.nullBefore = {0, 1}
  /\ emLast.idx = 1

\* C7 (amended) - insert stores the entity at the slot of its archetype that
\* was freed last among the free ones, which need not be the lowest free
\* index, and appends when no slot is free.
C7_InsertTakesLastFreed ==
  emLast.op = "insert" =>
    /\ emLast.nullBefore = {emLast.binBefore[k] : k \in 1..Len(emLast.binBefore)}
    /\ emLast.nullBefore # {}
         => (/\ emLast.idx = emLast.binBefore[Len(emLast.binBefore)]
             /\ Len(emData[emLast.type]) = emLast.lenBefore)
    /\ emLast.nullBefore = {}
         => (/\ emLast.idx = emLast.lenBefore
             /\ Len(emData[emLast.type]) = emLast.lenBefore + 1)
    /\ emData[emLast.type][emLast.idx + 1] = emLast.ref

\* Several slots were free and the insert took one that is not the lowest.
C7_Witness ==
  /\ emLast.op = "insert"
  /\ Cardinality(emLast.nullBefore) >= 2
  /\ emLast.idx # MinOf(emLast.nullBefore)
  /\ emLast.idx \in emLast.nullBefore

\* C7 as stated: the new entity is stored at the smallest free index of its
\* archetype, and appended when none is free.
C7_InsertTakesLowestFree ==
  emLast.op = "insert" =>
    emLast.idx = IF emLast.nullBefore # {} THEN MinOf(emLast.nullBefore)
                 ELSE emLast.lenBefore

\* C8 - ID round-trip: for every tag in 0..255 and every slot index in
\* 0..2^24-1, getIDType(createID(type, idx)) = type and
\* getIDIndex(createID(type, idx)) = idx.
C8_IDRoundTrip ==
  idDone => (GetIDType(idOut) = idType /\ GetIDIndex(idOut) = idIdx)

\* The tag 0 with the highest index: every bit of the id is set.
C8_Witness ==
  /\ idDone
  /\ idType = 0
  /\ idIdx = 16777215
  /\ idOut = 0 - 1

\* C9 (amended) - Encoding contract: for every id returned by insert, the
\* entity's archetype tag is 255 minus the top 8 bits of the id read as an
\* unsigned 32-bit integer, and its slot index is the low 24 bits of the id.
C9_EncodingComplement ==
  emLast.op = "insert" =>
    /\ heap[emLast.ref].archetype = 255 - TopByte(emLast.ret)
    /\ emLast.idx = Low24(emLast.ret)
    /\ heap[emLast.ref].id = emLast.ret

\* An entity of the second archetype was inserted at a slot other than 0.
C9_Witness ==
  /\ emLast.op = "insert"
  /\ heap[emLast.ref].archetype = 2
  /\ emLast.idx = 1
  /\ TopByte(emLast.ret) = 253

\* C9 as stated: the archetype tag is the top 8 bits of the id read as an
\* unsigned 32-bit integer, and the slot index is the low 24 bits.
C9_EncodingPlain ==
  emLast.op = "insert" =>
    /\ heap[emLast.ref].archetype = TopByte(emLast.ret)
    /\ emLast.idx = Low24(emLast.ret)

\* C10 - lookup is total and fails safely: for every id that names no live
\* entity (a freed slot, an index past the end, a tag that is no archetype,
\* id 0) lookup returns not found and does not throw.
C10_LookupFailsSafely ==
  (emLast.op = "lookup" /\ ~emLast.liveBefore) => emLast.ret \in {Null, Undefined}

\* ---------------------------------------------------------------------------
\* The calls of the last operation that ended in the given way.
LastCalls(op) == {i \in DOMAIN cmLast.log : cmLast.log[i].op = op}

\* C11 pool sizing: the pool holds (2d+1)^2 chunks for the radius d that
\* withinDistance and update use, and no loadChunk made by an update for a
\* non-resident UV of the world is refused because no slot is free.
C11_PoolSizing ==
  /\ cmMaxChunks = (2 * cmDistance + 1) * (2 * cmDistance + 1)
  /\ cmLast.op = "update" => LastCalls("full") = {}

\* C12 no diffs survive a level change: a chunk that is loaded without
\* having been unloaded since the last reset holds the generated baseline in
\* every cell, whatever was unloaded before the reset.
C12_NoDiffSurvivesReset ==
  (cmLast.op = "loadChunk" /\ cmLast.done /\ ~cmLast.hadSnap)
    => LastTileGrid = LastBaseline

\* The ID grid of the chunk the last call named.
LastIDGrid == chunkBuffer[MapGet(chunkMap, PosToStr(cmLast.uv)) + 1].idGrid

\* The cells of an ID grid that hold an id, each with its stack.
Stacks(idGrid) == {<<k, idGrid[k]>> : k \in {c \in DOMAIN idGrid : Len(idGrid[c]) > 0}}

\* C13 entity presence survives eviction: a chunk loaded again after its
\* unload holds, at every cell, the stack of ids the cell held at the unload,
\* in the same order.
C13_StacksSurviveEviction ==
  (cmLast.op = "loadChunk" /\ cmLast.done /\ cmLast.hadSnap)
    => Stacks(LastIDGrid) = Stacks(cmLast.idsBefore)

\* C13 for the cells that hold one id: the id is held again after the reload.
C13_TopSurvivesEviction ==
  (cmLast.op = "loadChunk" /\ cmLast.done /\ cmLast.hadSnap)
    => \A k \in DOMAIN cmLast.idsBefore :
         Len(cmLast.idsBefore[k]) > 0 =>
           /\ k \in DOMAIN LastIDGrid
           /\ LastIDGrid[k] = <<cmLast.idsBefore[k][Len(cmLast.idsBefore[k])]>>

\* The chunk the last call named.
LastChunk == chunkBuffer[MapGet(chunkMap, PosToStr(cmLast.uv)) + 1]

\* C14 slot contents are reinitialized on every load: after a loadChunk that
\* loaded, the tiles, the collision bits, the visibility bits and the ID
\* stacks of the chunk are those the same load gives on a slot that never
\* held a chunk.
C14_SlotReinitialized ==
  (cmLast.op = "loadChunk" /\ cmLast.done) => LastChunk = cmLast.fresh

\* A chunk has been loaded into a slot that held another chunk: tiles,
\* collision bits and ids of the other chunk were in the slot and differ
\* from those of the chunk loaded.
C14_Witness ==
  /\ cmLast.op = "loadChunk"
  /\ cmLast.done
  /\ cmLast.held.idGrid # <<>>
  /\ cmLast.held.idGrid # LastChunk.idGrid
  /\ cmLast.held.colGrid # LastChunk.colGrid
  /\ \E i \in Cells : cmLast.held.tileGrid[i] = TileWall /\ LastChunk.tileGrid[i] = TileFloor

\* The doors that loadChunk generated.
GeneratedDoors == {k \in 1..Len(heap) : "gen" \in DOMAIN heap[k]}

TownUpdated ==
  /\ cmSteps = 1
  /\ cmLast.op = "update"
  /\ cmLast.full
  /\ cmLast.uv = WorldToUV(Spawn)

\* C16 (amended) - Concrete scenario: in the town, after the manager of
\* radius 2 made at the spawn is updated there with force, exactly the 6
\* chunks of the town are resident and getTile(spawn) is the floor tile.
C16_TownScenarioSix ==
  TownUpdated => (Len(chunkMap) = 6 /\ GetTile(CMState, Spawn) = TileFloor)

\* The manager of radius 2, with its pool of 25 chunks, has been updated at
\* the spawn with force: 19 slots are still free.
C16_Witness ==
  /\ TownUpdated
  /\ cmDistance = 2
  /\ cmMaxChunks = 25
  /\ Len(cmBin) = 19
  /\ \A c \in NearUVs : InWorld(c[1], c[2]) => Resident(c[1], c[2])

\* C16 as stated: exactly 25 chunks are resident afterwards and
\* getTile(spawn) is the floor tile.
C16_TownScenario ==
  TownUpdated => (Len(chunkMap) = 25 /\ GetTile(CMState, Spawn) = TileFloor)

\* The loadChunk calls and the unloadChunk calls of the last operation, by
\* their place in the order of its calls.
LastLoads == LastCalls("load") \cup LastCalls("resident") \cup LastCalls("outside")
               \cup LastCalls("full")

LastUnloads == LastCalls("unload") \cup LastCalls("absent")

\* C17 eviction precedes loading: in an update every unloadChunk call comes
\* before every loadChunk call, and no loadChunk is called while a chunk
\* farther from the player's chunk than the radius holds a slot. The loads
\* of an update are within the radius, so a chunk that is resident and
\* farther at the end was so when the loads were made.
C17_EvictionPrecedesLoading ==
  cmLast.op = "update" =>
    /\ \A i \in LastUnloads, j \in LastLoads : i < j
    /\ LastLoads # {} =>
          \A c \in NearUVs : Resident(c[1], c[2]) => FromPlayer(c[1], c[2]) <= cmDistance
\* C18: a query or a mutator called at a position whose chunk is not resident
\* does not throw, changes nothing of the manager, the store, the world or the
\* entity manager, and returns undefined (a query, popID) or its argument back
\* (setTile, setCollision, setVisibility, setID, replaceID).
C18_NonResidentFailsQuietly ==
  (cmLast.op \in Queries \cup Mutators /\ ~cmLast.done) =>
    /\ cmLast.ret # ReferenceErr
    /\ cmLast.same
    /\ cmLast.ret = CallArg(cmLast.op)

\* What holds of the calls but setVisibility: nothing changes and the result
\* is undefined or the argument.
C18_OthersFailQuietly ==
  (cmLast.op \in (Queries \cup Mutators) \ {"setVisibility"} /\ ~cmLast.done) =>
    /\ cmLast.same
    /\ cmLast.ret = CallArg(cmLast.op)

\* A mutator was called at a cell inside the world whose chunk had been
\* evicted.
C18_Reached ==
  /\ cmLast.op = "setID"
  /\ ~cmLast.done
  /\ cmLast.uv = [x |-> 2, y |-> 0]
  /\ cmLast.ret = CreateID(2, 0)

\* The records of a diff string, and the ids the entity manager has given out
\* together with the id the game pushes on a cell.
DiffRecords(str) == {StrSplit(str, ";")[k] : k \in 1..Len(StrSplit(str, ";"))}

GivenIDs == {heap[k].id : k \in 1..Len(heap)} \cup {CreateID(2, 0)}

\* A record of a tile diff: the key of a cell of the chunk, a colon, and a
\* tile of one byte in base 16.
TileDiffRecord(rec) ==
  /\ Len(StrSplit(rec, ":")) = 2
  /\ StrSplit(rec, ":")[1] \in {CellKey[i] : i \in Cells}
  /\ \E t \in 0..255 : StrSplit(rec, ":")[2] = NumToStr(t, 16)
  /\ \A id \in GivenIDs : StrSplit(rec, ":")[2] # IDToStr(id)

\* C19: every value of the durable store is a string of tile-diff records;
\* none of its records pairs a cell with the id of an entity.
C19_StoreHoldsTileDiffsOnly ==
  \A key \in DOMAIN localStorage :
    \A rec \in DiffRecords(localStorage[key]) : TileDiffRecord(rec)

\* The corner chunk was unloaded with a written tile and with ids on its
\* cells: its tile diff is in the store and its entity diff is in the cache.
C19_Witness ==
  /\ cmLast.op \in {"unloadChunk", "update"}
  /\ ToChunkString(WorldDepth, [x |-> 0, y |-> 0]) \in DOMAIN localStorage
  /\ ToChunkString(WorldDepth, [x |-> 0, y |-> 0]) \in DOMAIN entityDiffCache
  /\ ~Resident(0, 0)

\* The id resolves to an entity: lookup gives neither null nor undefined and
\* does not throw.
Resolves(data, id) == Lookup(data, id) \notin {Null, Undefined, TypeErr}

C21_ResetEmpties ==
  cmLast.op = "reset" =>
    /\ chunkMap = <<>>
    /\ Len(cmBin) = cmMaxChunks
    /\ {cmBin[k] : k \in 1..Len(cmBin)} = 0..(cmMaxChunks - 1)
    /\ chunkDiffCache = <<>>
    /\ entityDiffCache = <<>>
    /\ cmPosition = cmLast.uv

\* A reset of a manager that held resident chunks and entries in both caches.
C21_Witness ==
  /\ cmLast.op = "reset"
  /\ cmLast.full
  /\ cmLast.hadDiff

\* C22: a loadChunk call that finds no free slot, or the UV loaded, or the UV
\* out of bounds returns the requested position and leaves chunkMap, the bin,
\* the chunk buffer, both caches, the store, the world and the entity manager
\* as they were.
C22_LoadGuardedNoOp ==
  (cmLast.op = "loadChunk" /\ cmLast.guard) =>
    /\ cmLast.same
    /\ cmLast.back = {cmLast.uv}

\* loadChunk was called for a UV that was resident while slots were free.
C22_Witness ==
  /\ cmLast.op = "loadChunk"
  /\ cmLast.guard
  /\ cmLast.log[1].op = "resident"
  /\ cmBin # <<>>

\* C23: an update that is not forced, at a position whose UV is the anchored
\* position, calls neither loadChunk nor unloadChunk and leaves chunkMap, the
\* bin, the chunk buffer, both caches, the store, the world and the entity
\* manager as they were.
C23_UpdateSameChunkNoOp ==
  (cmLast.op = "update" /\ ~cmLast.full) =>
    /\ cmLast.log = <<>>
    /\ cmLast.same

\* Such an update was called while a chunk of the window around the player
\* was in the world and not resident.
C23_Witness ==
  /\ cmLast.op = "update"
  /\ ~cmLast.full
  /\ \E c \in NearUVs :
        /\ InWorld(c[1], c[2])
        /\ FromPlayer(c[1], c[2]) <= cmDistance
        /\ ~Resident(c[1], c[2])

\* C24: for each archetype the free list bin[type] holds exactly the indices
\* of the slots of data[type] that are null, each once, and every other slot
\* below data[type].length holds an entity.
C24_FreeListIsNullSlots ==
  \A t \in EntityTypes :
    /\ {emBin[t][k] : k \in 1..Len(emBin[t])} = NullSlots(emData, t)
    /\ Len(emBin[t]) = Cardinality(NullSlots(emData, t))
    /\ \A i \in 0..(Len(emData[t]) - 1) :
          i \notin {emBin[t][k] : k \in 1..Len(emBin[t])} =>
            emData[t][i + 1] \in 1..Len(heap)

\* An archetype with two slots on its free list and an entity in another,
\* after a delete or a remove.
C24_Witness ==
  /\ emLast.op \in {"delete", "remove"}
  /\ \E t \in EntityTypes :
        /\ Len(emBin[t]) = 2
        /\ \E i \in 0..(Len(emData[t]) - 1) : emData[t][i + 1] \in 1..Len(heap)

\* C25: remove(id) on a live id returns the stored entity and delete(id)
\* returns the id, and lookup(id) then finds no entity; on an id whose slot is
\* free or was never allocated each returns undefined, without throwing, and
\* changes neither data nor the free lists.
C25_FreesOnce ==
  [][emLast'.op \in {"delete", "remove"} =>
       IF emLast'.liveBefore
       THEN /\ emLast'.ret = (IF emLast'.op = "delete" THEN emLast'.id ELSE emLast'.ref)
            /\ Lookup(emData', emLast'.id) = Null
       ELSE /\ emLast'.ret = Undefined
            /\ emData' = emData
            /\ emBin' = emBin]_vars

\* The same, where a call on an id whose tag is no archetype may throw.
C25_FreesOnceOrThrows ==
  [][emLast'.op \in {"delete", "remove"} =>
       IF emLast'.liveBefore
       THEN /\ emLast'.ret = (IF emLast'.op = "delete" THEN emLast'.id ELSE emLast'.ref)
            /\ Lookup(emData', emLast'.id) = Null
       ELSE /\ emLast'.ret = (IF TypeOf(emLast'.id) \in EntityTypes THEN Undefined
                              ELSE TypeErr)
            /\ emData' = emData
            /\ emBin' = emBin]_vars

\* A second run: the manager constructed anew over the same world template and
\* the same entity manager, with empty caches and an empty store, loads uv.
SecondRun(uv) ==
  LoadChunk(NewManager(UVToWorld(cmPosition), cmWidth * ChunkSize, cmHeight * ChunkSize,
                       cmDistance, worldTiles, <<>>, EMState), uv)

WellFormed(rec) ==
  /\ Len(StrSplit(rec, ":")) = 2
  /\ StrSplit(rec, ":")[1] \in {CellKey[i] : i \in Cells}
  /\ \E t \in 0..255 : StrSplit(rec, ":")[2] = NumToStr(t, 16)

\* The tiles the well-formed records of a diff give the cell i.
GivenTiles(diff, i) ==
  {ParseInt(StrSplit(rec, ":")[2], 16) :
     rec \in {r \in DiffRecords(diff) : WellFormed(r) /\ StrSplit(r, ":")[1] = CellKey[i]}}

\* C27: after a loadChunk that loaded, a cell that a well-formed record of
\* the chunk diff names holds the tile of such a record, and every other cell
\* holds its baseline tile, whatever other records the diff contains.
C27_CorruptRecordsSkipped ==
  (cmLast.op = "loadChunk" /\ cmLast.done /\ cmLast.diff # <<>>) =>
    \A i \in Cells :
      IF GivenTiles(cmLast.diff, i) = {}
      THEN LastTileGrid[i] = LastBaseline[i]
      ELSE LastTileGrid[i] \in GivenTiles(cmLast.diff, i)

\* The same for the first call on the manager, when the records of the stored
\* diff that are not well formed have a key that is no hexadecimal text.
C27_UnreadableKeysSkipped ==
  (/\ cmLast.op = "loadChunk"
   /\ cmLast.done
   /\ cmLast.diff # <<>>
   /\ cmSteps = 1
   /\ \A rec \in DiffRecords(cmLast.diff) : WellFormed(rec) \/ ParseInt(rec, 16) = NaN) =>
    \A i \in Cells :
      IF GivenTiles(cmLast.diff, i) = {}
      THEN LastTileGrid[i] = LastBaseline[i]
      ELSE LastTileGrid[i] \in GivenTiles(cmLast.diff, i)

\* A diff with a record of unreadable key was run, and its well-formed record
\* was applied.
C27_UnreadableReached ==
  /\ cmLast.op = "loadChunk"
  /\ cmLast.done
  /\ cmSteps = 1
  /\ \E rec \in DiffRecords(cmLast.diff) : ParseInt(rec, 16) = NaN
  /\ LastTileGrid[CellIndex([x |-> 5, y |-> 5])] = TileWall

\* A cell of an ID grid as a stack, bottom first; the top of a stack, or
\* undefined; the stack without its top.
StackAt(idGrid, key) == IF key \in DOMAIN idGrid THEN idGrid[key] ELSE <<>>

TopOf(stack) == IF Len(stack) = 0 THEN Undefined ELSE stack[Len(stack)]

Below(stack) == SubSeq(stack, 1, Len(stack) - 1)

GridOps ==
  {"IDGrid.getID", "IDGrid.setID", "IDGrid.popID", "IDGrid.replaceID", "IDGrid.setUnderID"}

\* A step is a call of op on the ID grid; every cell but the cell of the call,
\* and every other chunk, is as before.
GridStep(op) ==
  /\ cmLast'.op = op
  /\ cmSteps' = cmSteps + 1

OtherCellsKept(idx, key) ==
  /\ \A k \in (DOMAIN chunkBuffer[idx + 1].idGrid \cup DOMAIN chunkBuffer'[idx + 1].idGrid)
                \ {key} :
        StackAt(chunkBuffer'[idx + 1].idGrid, k) = StackAt(chunkBuffer[idx + 1].idGrid, k)
  /\ \A j \in DOMAIN chunkBuffer : j # idx + 1 => chunkBuffer'[j] = chunkBuffer[j]

\* What the methods other than setUnderID do to the stack before of a cell,
\* leaving the stack after and returning ret.
StackStep(op, before, after, id, ret) ==
  /\ op = "IDGrid.getID" => ret = TopOf(before) /\ after = before
  /\ op = "IDGrid.setID" => after = Append(before, id)
  /\ op = "IDGrid.popID" => ret = TopOf(before) /\ after = Below(before)
  /\ op = "IDGrid.replaceID" => ret = TopOf(before) /\ after = Append(Below(before), id)

\* C28 each cell of an ID grid is a stack: getID returns the top and changes
\* nothing, setID pushes, popID removes the top and returns it, replaceID
\* puts the id in the place of the top and returns the former top, setUnderID
\* leaves the top as it is and puts the id directly beneath it, and no call
\* changes another cell.
C28_CellIsStack ==
  [][\A op \in GridOps : GridStep(op) =>
       \E idx \in {MapGet(chunkMap, PosToStr(cmLast'.uv))}, key \in {PosToStr(cmLast'.cell)} :
         /\ OtherCellsKept(idx, key)
         /\ StackStep(op, StackAt(chunkBuffer[idx + 1].idGrid, key),
                      StackAt(chunkBuffer'[idx + 1].idGrid, key), cmLast'.arg, cmLast'.ret)
         /\ op = "IDGrid.setUnderID" =>
              /\ TopOf(StackAt(chunkBuffer'[idx + 1].idGrid, key))
                   = TopOf(StackAt(chunkBuffer[idx + 1].idGrid, key))
              /\ Below(StackAt(chunkBuffer'[idx + 1].idGrid, key))
                   = Append(Below(StackAt(chunkBuffer[idx + 1].idGrid, key)), cmLast'.arg)]_vars

\* The same, where setUnderID on a cell that holds no id makes the id the
\* only id of the cell.
C28_CellIsStackUnderOfSome ==
  [][\A op \in GridOps : GridStep(op) =>
       \E idx \in {MapGet(chunkMap, PosToStr(cmLast'.uv))}, key \in {PosToStr(cmLast'.cell)} :
         /\ OtherCellsKept(idx, key)
         /\ StackStep(op, StackAt(chunkBuffer[idx + 1].idGrid, key),
                      StackAt(chunkBuffer'[idx + 1].idGrid, key), cmLast'.arg, cmLast'.ret)
         /\ op = "IDGrid.setUnderID" =>
              IF StackAt(chunkBuffer[idx + 1].idGrid, key) = <<>>
              THEN StackAt(chunkBuffer'[idx + 1].idGrid, key) = <<cmLast'.arg>>
              ELSE /\ TopOf(StackAt(chunkBuffer'[idx + 1].idGrid, key))
                        = TopOf(StackAt(chunkBuffer[idx + 1].idGrid, key))
                   /\ Below(StackAt(chunkBuffer'[idx + 1].idGrid, key))
                        = Append(Below(StackAt(chunkBuffer[idx + 1].idGrid, key)),
                                 cmLast'.arg)]_vars

\* setUnderID was called on a cell of two ids while another cell held ids:
\* the cell holds three, the id given beneath the top.
C28_Witness ==
  /\ cmLast.op = "IDGrid.setUnderID"
  /\ \E g \in {LastChunk.idGrid} :
        /\ Len(StackAt(g, PosToStr(cmLast.cell))) = 3
        /\ StackAt(g, PosToStr(cmLast.cell))[2] = cmLast.arg
        /\ TopOf(StackAt(g, PosToStr(cmLast.cell))) # cmLast.arg
        /\ \E k \in DOMAIN g : k # PosToStr(cmLast.cell) /\ Len(g[k]) > 0

\* Every UV inside the world within the distance of the player's chunk is
\* resident.
WindowResident ==
  \A c \in NearUVs :
    (InWorld(c[1], c[2]) /\ FromPlayer(c[1], c[2]) <= cmDistance) => Resident(c[1], c[2])

\* C29: after an update, forced or not, that is the first call on a manager
\* just constructed or just reset, every UV inside the world within the
\* distance of the chunk of the position given to update is resident (on a
\* pool as large as the window).
C29_FirstUpdateLoadsWindow ==
  [][(/\ cmLast.op \in {"none", "reset"}
      /\ cmLast'.op = "update"
      /\ cmSteps' = cmSteps + 1
      /\ cmMaxChunks >= (2 * cmDistance + 1) * (2 * cmDistance + 1)) => WindowResident']_vars

\* The same for the updates that are forced or name another chunk than the
\* anchored one, on a pool as large as the window.
C29_FullUpdateLoadsWindow ==
  [][(/\ cmLast.op \in {"none", "reset"}
      /\ cmLast'.op = "update"
      /\ cmSteps' = cmSteps + 1
      /\ cmLast'.full
      /\ cmMaxChunks >= (2 * cmDistance + 1) * (2 * cmDistance + 1)) => WindowResident']_vars

\* A forced update was the first call after a reset, at the position of the
\* reset, and the chunk of the player is resident.
C29_FullReached ==
  /\ cmLast.op = "update"
  /\ cmLast.full
  /\ cmMaxChunks >= (2 * cmDistance + 1) * (2 * cmDistance + 1)
  /\ cmPosition = cmPlayerPosition
  /\ Resident(cmPlayerPosition.x, cmPlayerPosition.y)
  /\ Len(chunkMap) > 1

\* C30: a chunk that had a stored diff, was edited back to its baseline and
\* unloaded, holds the generated baseline in every cell once loaded again.
C30_BackToBaselineReloadsBaseline ==
  (/\ cmLast.op = "loadChunk"
   /\ cmLast.done
   /\ cmLast.hadSnap
   /\ cmLast.snapDiff = {})
    => LastTileGrid = LastBaseline

\* C30 for the chunks that were off their baseline at the unload: what the
\* next load finds under the chunk's key was written by that unload.
C30_OffBaselineUnloadIsStored ==
  (/\ cmLast.op = "unloadChunk"
   /\ cmLast.done
   /\ ~cmLast.atBaseline)
    => /\ LastChunkKey \in DOMAIN chunkDiffCache
       /\ LastChunkKey \in DOMAIN localStorage
       /\ chunkDiffCache[LastChunkKey] = localStorage[LastChunkKey]

\* The cells of the chunk the last call named whose restored id resolves to
\* an entity.
RestoredCells ==
  {i \in Cells : /\ CellKey[i] \in DOMAIN cmLast.idsBefore
                 /\ GridGetID(LastIDGrid, CellKey[i]) # Undefined
                 /\ Resolves(emData, GridGetID(LastIDGrid, CellKey[i]))}

\* The entity the id on cell i of the corner chunk resolves to is the door
\* that was generated for the cell.
NamesItsDoor(i) ==
  /\ Lookup(emData, GridGetID(LastIDGrid, CellKey[i])) \in GeneratedDoors
  /\ heap[Lookup(emData, GridGetID(LastIDGrid, CellKey[i]))].at
       = CoordKey(i % ChunkSize, i \div ChunkSize)

\* The last call was a loadChunk that loaded the corner chunk after an
\* eviction.
CornerReloaded ==
  /\ cmLast.op = "loadChunk"
  /\ cmLast.done
  /\ cmLast.hadSnap
  /\ cmLast.uv = [x |-> 0, y |-> 0]

C31_NamesSameEntityUnlessFreed ==
  [][(cmSteps' = cmSteps + 1 /\ CornerReloaded' /\ stale = {})
       => (RestoredCells # {} /\ \A i \in RestoredCells : NamesItsDoor(i))']_vars

\* The corner chunk was reloaded from its entity diff with no entity freed.
C31_UnfreedReached ==
  /\ cmLast.op = "loadChunk"
  /\ cmLast.done
  /\ cmLast.hadSnap
  /\ stale = {}
  /\ Len(heap) > 1
  /\ RestoredCells # {}

\* The collision bit of every cell of the chunk the last call named equals
\* tileCollision of the tile the cell holds.
CollisionAgrees ==
  \A i \in Cells : (i \in LastChunk.colGrid) <=> TileCollision(LastChunk.tileGrid[i])

\* C32: after a loadChunk that loaded, the collision bit of every cell equals
\* tileCollision of the tile in the tile grid, also when a tile diff replaced
\* the tile of the template.
C32_CollisionAgreesWithTiles ==
  (cmLast.op = "loadChunk" /\ cmLast.done) => CollisionAgrees

\* C32 for the loads that run no tile diff.
C32_CollisionAgreesWithoutDiff ==
  (cmLast.op = "loadChunk" /\ cmLast.done /\ cmLast.diff = <<>>) => CollisionAgrees

\* The world position of cell i of the chunk at uv.
WorldCell(uv, i) ==
  [x |-> UVToWorld(uv).x + CellPos(i).x, y |-> UVToWorld(uv).y + CellPos(i).y]

\* What a load with no tile diff leaves for a tile of the template.
Mirrored(tile) == IF TileEntity(tile) THEN DefaultTile ELSE tile

\* C33: after a loadChunk(uv) that ran no tile diff, getTile at every world
\* position of the chunk returns the tile world.lookup returned there when
\* the load began, or the default tile where that tile is an entity seed.
C33_LoadedTilesMirrorTemplate ==
  [][(/\ cmSteps' = cmSteps + 1
      /\ cmLast'.op = "loadChunk"
      /\ cmLast'.done
      /\ cmLast'.diff = <<>>)
       => \A i \in Cells :
            GetTile(CMState', WorldCell(cmLast'.uv, i))
              = Mirrored(WorldLookup(worldTiles, WorldCell(cmLast'.uv, i).x,
                                     WorldCell(cmLast'.uv, i).y))]_vars

\* The corner chunk was loaded with no tile diff: the cell of the door seed
\* reads the default tile, the seed is gone from the world, and a cell of the
\* town wall reads Wall.
C33_Witness ==
  /\ cmLast.op = "loadChunk"
  /\ cmLast.done
  /\ cmLast.diff = <<>>
  /\ cmLast.uv = [x |-> 0, y |-> 0]
  /\ TownTemplate[CoordKey(4, 4)] = TileClosedDoor
  /\ GetTile(CMState, [x |-> 4, y |-> 4]) = DefaultTile
  /\ WorldLookup(worldTiles, 4, 4) = DefaultTile
  /\ \E i \in Cells : GetTile(CMState, WorldCell(cmLast.uv, i)) = TileWall

\* The UVs the runs can make resident.
KnownUVs == NearUVs \cup {<<uv.x, uv.y>> : uv \in DirectUVs}

\* C34: no UV is resident while chunkDiffCache or entityDiffCache holds an
\* entry under the key of its chunk.
C34_CachesHoldEvictedOnly ==
  \A c \in KnownUVs :
    Resident(c[1], c[2]) =>
      /\ ToChunkString(WorldDepth, [x |-> c[1], y |-> c[2]]) \notin DOMAIN chunkDiffCache
      /\ ToChunkString(WorldDepth, [x |-> c[1], y |-> c[2]]) \notin DOMAIN entityDiffCache

\* The corner chunk was loaded again from a tile diff and an entity diff and
\* is resident.
C34_Witness ==
  /\ cmLast.op = "loadChunk"
  /\ cmLast.done
  /\ cmLast.uv = [x |-> 0, y |-> 0]
  /\ cmLast.diff # <<>>
  /\ cmLast.hadSnap
  /\ \E k \in DOMAIN cmLast.idsBefore : Len(cmLast.idsBefore[k]) > 0
  /\ \E k \in DOMAIN LastIDGrid : Len(LastIDGrid[k]) > 0
  /\ Resident(0, 0)

\* The references of the live entities: those a slot of data holds.
LiveRefs ==
  {k \in 1..Len(heap) :
     \E t \in EntityTypes : \E j \in 1..Len(emData[t]) : emData[t][j] = k}

\* C35: every live entity e has lookup(e.id) = e, and no two live entities
\* have the same id, also when their archetypes differ.
C35_LiveIDsUniqueAndSelfDescribing ==
  /\ \A k \in LiveRefs : Lookup(emData, heap[k].id) = k
  /\ \A k1, k2 \in LiveRefs : heap[k1].id = heap[k2].id => k1 = k2

\* Entities of two archetypes are live, one of them in a slot that an
\* earlier entity was freed from.
C35_Witness ==
  /\ emLast.op = "insert"
  /\ \E k1, k2 \in LiveRefs : heap[k1].archetype # heap[k2].archetype
  /\ \E h \in stale : \E k \in LiveRefs : heap[k].id = h.id /\ k # h.ref

\* The elements the buffer stores, front first: the slots from front + 1 to
\* back, around the end of the array.
RingContents ==
  [i \in 1..ring.length |-> ring.data[((ring.front + i) % ring.capacity) + 1]]

\* C37: the RingBuffer refines a double-ended queue of its capacity: every
\* pushBack, pushFront, popFront, popBack, peekFront and peekBack returns what
\* the queue returns (pops and peeks of an empty buffer undefined, pushes on a
\* full one the rejected value), the buffer stores the elements of the queue
\* in its order, and length is their number, within 0..capacity.
C37_RingRefinesDeque ==
  /\ rbLast.ret = rbLast.want
  /\ RingContents = rbModel
  /\ ring.length = Len(rbModel)
  /\ ring.length \in 0..ring.capacity

\* A buffer of capacity 3 that has wrapped around: it was filled from both
\* ends, a push was rejected, and a popFront returned an element that
\* pushBack had inserted while others were stored.
C37_Witness ==
  /\ ring.capacity = 3
  /\ rbLast.op = "popFront"
  /\ rbLast.ret \in RingValues
  /\ ring.length = 2
  /\ ring.back < ring.front
  /\ ring.lastPop = rbLast.ret
  /\ rbModel[1] # rbModel[2]

\* The door is shut as the claim describes it: not open, with collision.
Shut(d) == ~d.open /\ d.collision

\* C39: Door.open followed by Door.close returns a closed door (tile
\* ClosedDoor, not open, collision) to not open, collision, occlusion and
\* tile ClosedDoor, and a lowered portcullis to tile PortcullisDown.
C39_OpenCloseRoundTrip ==
  [][(/\ doorLast.op = "open"
      /\ doorLast'.op = "close"
      /\ Shut(doorLast.given))
       => /\ doorLast.given.tile = TileClosedDoor
             => /\ Shut(door')
                /\ door'.occlusion
                /\ door'.tile = TileClosedDoor
          /\ doorLast.given.tile = TilePortcullisDown
             => door'.tile = TilePortcullisDown]_vars

\* C39 but for the tile of the door: the flags of a closed door and the
\* tile of a lowered portcullis come back.
C39_RoundTripButDoorTile ==
  [][(/\ doorLast.op = "open"
      /\ doorLast'.op = "close"
      /\ Shut(doorLast.given))
       => /\ doorLast.given.tile = TileClosedDoor
             => /\ Shut(door')
                /\ door'.occlusion
                /\ door'.tile = TileOpenDoor
          /\ doorLast.given.tile = TilePortcullisDown
             => /\ Shut(door')
                /\ door'.tile = TilePortcullisDown]_vars

\* A lowered portcullis has been opened and closed.
C39_PortcullisReached ==
  /\ doorLast.op = "close"
  /\ doorLast.given.tile = TilePortcullisUp
  /\ doorLast.given.open
  /\ door.tile = TilePortcullisDown

\* The nine slots of a manager.
SlotNames == {"root", "N", "NE", "E", "SE", "S", "SW", "W", "NW"}

Slots(m) == [n \in SlotNames |-> m[n]]

\* Every cache entry is keyed by the position of the chunk it holds.
CacheKeyed(m) == \A k \in DOMAIN m.cache : k = JSONPosition(m.cache[k].position)

\* C38: reroot(N, a, b, c) followed by reroot(S, x, y, z), x, y and z being
\* the chunks the first call cached under the positions of the former SW, S
\* and SE slots, restores the nine slots to the chunks they held before the
\* two calls, and every cache entry is keyed by the position of its chunk.
C38_RerootRoundTrip ==
  [][/\ CacheKeyed(nine')
     /\ (/\ nineLast.op = "N"
         /\ nineLast'.op = "S"
         /\ nineLast'.given = <<nine.cache[JSONPosition(nineLast.met.SW.position)],
                                nine.cache[JSONPosition(nineLast.met.S.position)],
                                nine.cache[JSONPosition(nineLast.met.SE.position)]>>)
          => Slots(nine') = Slots(nineLast.met)]_vars

\* The manager was rerooted north with new chunks and south with the chunks
\* the first call cached: the cache holds the three rows that went out of
\* range and the slots hold the chunks of the constructor.
C38_Witness ==
  /\ nineLast.op = "S"
  /\ nineLast.prev = "N"
  /\ nineLast.steps = 2
  /\ nineLast.made = 12
  /\ nineLast.given = <<NineNew.SW, NineNew.S, NineNew.SE>>
  /\ Slots(nine) = Slots(NineNew)
  /\ Cardinality(DOMAIN nine.cache) = 6

\* The events in the queue of the game, front first.
EventsQueued ==
  [i \in 1..game.events.length |->
     game.events.data[((game.events.front + i) % game.events.capacity) + 1]]

\* After an input the queue holds the events the input was to push, in
\* order: PlayerMoved once for a move of the player that succeeded, nothing
\* for one that failed.
QueuedAsPushed == game.pc = "handle" => EventsQueued = gameLast.pending

\* In the await of an input the queue is empty, handleEvents has handled the
\* events that were queued, each once and in their order, and update was
\* called once for each move, with the position the player has.
DrainedBeforeAwait ==
  game.pc = "await" =>
    /\ game.events.length = 0
    /\ gameLast.handled = gameLast.wanted
    /\ gameLast.updates = gameLast.moved
    /\ Len(gameLast.moved) <= 1
    /\ gameLast.moved # <<>> =>
          /\ gameLast.updates = <<game.position>>
          /\ cmPlayerPosition = WorldToUV(game.position)

MovePending == game.pc = "handle" /\ gameLast.movedTo # <<>>

MoveUpdated ==
  /\ game.pc = "await"
  /\ gameLast.moved # <<>>
  /\ gameLast.updates = <<game.position>>

\* C36: every successful moveEntity of the player queues exactly one
\* PlayerMoved; the loop pops it and calls update with the player's new
\* position before it awaits the next input; the events are handled in the
\* order they were pushed and none is dropped.
C36_OneUpdatePerPlayerMove ==
  /\ [](QueuedAsPushed /\ DrainedBeforeAwait)
  /\ (MovePending ~> MoveUpdated)

\* The player has stepped into another chunk and the loop awaits the next
\* input: the one event was handled and update given the new position.
C36_Witness ==
  /\ MoveUpdated
  /\ gameLast.handled = <<EventPlayerMoved>>
  /\ WorldToUV(game.position) # WorldToUV(TestMapSpawn)
  /\ cmPosition = WorldToUV(game.position)

====
